---- MODULE Spec2Model ----
(***************************************************************************)
(* Model of the Obsidian Google-Docs exporter: the Mermaid link encoder    *)
(* (src/src/utils/mermaidEncoder.ts) and the markdown parser               *)
(* (src/src/utils/markdownParser.ts).                                      *)
(*                                                                         *)
(* Text is modelled at line granularity.  A JavaScript string is the       *)
(* sequence of its lines, as String.prototype.split('\n') returns them:    *)
(* the empty string is <<"">>, "a\nb" is <<"a", "b">>, and a string that   *)
(* ends in a line break has "" as its last line.  A line is an atomic TLA+ *)
(* string; what a regular expression of the source sees inside a line is   *)
(* given by the per-line operators below (IsBlankLine, LeadingWord,        *)
(* BeforeFence, ...), which are written out for every line the model uses. *)
(* The three grave accents of a code fence are written as three            *)
(* apostrophes, since a TLA+ string cannot hold a grave accent.            *)
(***************************************************************************)
EXTENDS Integers, Sequences, FiniteSets, TLC

(***************************************************************************)
(* Bounds of the model.                                                    *)
(***************************************************************************)
\* Longest markdown document handed to parse, in lines.
MaxLines == 4
\* Longest diagram source handed directly to the encoder, in lines.
MaxCodeLines == 2

(***************************************************************************)
(* Lines.                                                                  *)
(***************************************************************************)
\* The lines markdown documents are built from.
DocLines ==
    { "", "text", "graph TD", "'''mermaid", "'''", "__MERMAID_BLOCK_0__",
      "> text", ">", "> graph TD" }

\* The lines diagram sources handed directly to the encoder are built from.
CodeLines ==
    { "", "  ", "graph TD", "sequenceDiagram", "  flowchart-v2 LR",
      "constructor", "unknownType", "%% note" }

\* /^\s*$/ on one line: the line holds only white space.
IsBlankLine(l) == l \in {"", "  "}

\* String.prototype.trim() seen from the left end of a line.
TrimLeftLine(l) ==
    CASE l = "  " -> ""
      [] l = "  flowchart-v2 LR" -> "flowchart-v2 LR"
      [] OTHER -> l

\* String.prototype.trim() seen from the right end of a line.
TrimRightLine(l) ==
    CASE l = "  " -> ""
      [] OTHER -> l

\* The index of the first line of ls that is not blank, 0 when all are blank.
FirstInk(ls) ==
    IF \A i \in 1..Len(ls) : IsBlankLine(ls[i]) THEN 0
    ELSE CHOOSE i \in 1..Len(ls) :
            /\ ~IsBlankLine(ls[i])
            /\ \A j \in 1..(i - 1) : IsBlankLine(ls[j])

\* The index of the last line of ls that is not blank, 0 when all are blank.
LastInk(ls) ==
    IF \A i \in 1..Len(ls) : IsBlankLine(ls[i]) THEN 0
    ELSE CHOOSE i \in 1..Len(ls) :
            /\ ~IsBlankLine(ls[i])
            /\ \A j \in (i + 1)..Len(ls) : IsBlankLine(ls[j])

\* String.prototype.trim() on a string given as its lines.
Trim(ls) ==
    IF FirstInk(ls) = 0 THEN <<"">>
    ELSE LET a == FirstInk(ls)
             b == LastInk(ls)
             cut == SubSeq(ls, a, b)
         IN [i \in 1..Len(cut) |->
                LET l1 == IF i = 1 THEN TrimLeftLine(cut[i]) ELSE cut[i]
                IN  IF i = Len(cut) THEN TrimRightLine(l1) ELSE l1]

\* s.length === 0 for a string given as its lines.
IsEmptyString(ls) == ls = <<"">>

\* The match of /^([\w-]+)/ on a trimmed line: the leading run of letters,
\* digits, underscores and hyphens, "" when the line does not start with one.
LeadingWord(l) ==
    CASE l = "graph TD" -> "graph"
      [] l = "flowchart-v2 LR" -> "flowchart-v2"
      [] l \in {"text", "sequenceDiagram", "constructor", "unknownType",
                "mermaid", "__MERMAID_BLOCK_0__", "__MERMAID_BLOCK_1__",
                "__MERMAID_BLOCK_2__"} -> l
      [] OTHER -> ""

(***************************************************************************)
(* JavaScript values and completions.                                      *)
(***************************************************************************)
\* A call that returns v.
Ok(v) == [ok |-> TRUE, val |-> v]
\* A call that throws.
Raise == [ok |-> FALSE, val |-> "exception"]

\* A JavaScript string value.
JsString(s) == [jsType |-> "string", str |-> s]
\* A JavaScript value that is not a string: a function or an object.
JsObject(kind, name) == [jsType |-> kind, str |-> name]

(***************************************************************************)
(* MermaidEncoder (src/src/utils/mermaidEncoder.ts).                       *)
(*                                                                         *)
(* A URL is the sequence of the pieces it is concatenated from.  The       *)
(* library steps of encode (JSON.stringify, TextEncoder.encode,            *)
(* pako.deflate, btoa) are injective on their inputs, and are modelled as  *)
(* constructors that keep their argument.  Each of them may fail in the    *)
(* host environment; which one does, if any, is the fault of the call.     *)
(***************************************************************************)
\* The steps of encode that can throw, and "none".
EncodeFaults == {"none", "stringify", "utf8", "deflate", "btoa"}

\* The themes encode is called with ('default' is the default parameter).
Themes == {"default", "dark"}

BaseUrl == "https://mermaid.live/edit"
PakoTag == "#pako:"

\* JSON.stringify({code: code || '', mermaid: {theme: theme}}).
JsonStringify(code, theme) == [json |-> [code |-> code, theme |-> theme]]
\* new TextEncoder().encode(jsonString).
Utf8Encode(json) == [utf8 |-> json]
\* pako.deflate(utf8Bytes).
Deflate(bytes) == [zlib |-> bytes]
\* btoa(binaryString) of the bytes.
Btoa(bytes) == [b64 |-> bytes]

\* MermaidEncoder.uint8ArrayToBase64: the base64 text of the bytes, as the
\* pieces of a string; the empty string when the conversion throws.  The
\* bytes are a deflate stream, which is never empty.
Uint8ArrayToBase64(bytes, fault) ==
    IF fault = "btoa" THEN Ok(<< >>) ELSE Ok(<<Btoa(bytes)>>)

\* encode whose catch block rethrows (a variant of the code).
EncodeRethrowing(code, theme, fault) ==
    IF fault \in {"stringify", "utf8", "deflate"} THEN Raise
    ELSE Ok(<<BaseUrl, PakoTag>>
            \o Uint8ArrayToBase64(
                 Deflate(Utf8Encode(JsonStringify(code, theme))), fault).val)

\* What encode and uint8ArrayToBase64 log with console.error.
EncodeLog(fault) ==
    IF fault = "none" THEN << >>
    ELSE IF fault = "btoa" THEN <<"Base64 encoding error:">>
    ELSE <<"Mermaid encoding error:">>

\* MermaidEncoder.encode(code, theme): the completion of the call.
Encode(code, theme, fault) ==
    IF fault \in {"stringify", "utf8", "deflate"}
    THEN \* the catch block of encode
         Ok(<<BaseUrl>>)
    ELSE LET b64 == Uint8ArrayToBase64(
                      Deflate(Utf8Encode(JsonStringify(code, theme))), fault)
         IN  IF b64.ok THEN Ok(<<BaseUrl, PakoTag>> \o b64.val)
             ELSE \* an exception of the helper lands in the catch block
                  Ok(<<BaseUrl>>)

\* MermaidEncoder.getDiagramType(code): the first word of the first line
\* of the trimmed code, 'diagram' when there is none.
GetDiagramType(code) ==
    IF IsEmptyString(code) \/ IsEmptyString(Trim(code)) THEN "diagram"
    ELSE LET firstLine == TrimRightLine(TrimLeftLine(Trim(code)[1]))
         IN  IF LeadingWord(firstLine) # "" THEN LeadingWord(firstLine)
             ELSE "diagram"

\* The typeMap literal of formatDiagramType: its own keys.
TypeMapKeys ==
    { "flowchart", "flowchart-v2", "graph", "sequenceDiagram", "classDiagram",
      "stateDiagram", "stateDiagram-v2", "erDiagram", "journey", "gantt",
      "pie", "quadrantChart", "requirementDiagram", "gitGraph", "mindmap",
      "timeline", "zenuml", "sankey", "block", "packet" }

\* The typeMap literal of formatDiagramType: the value of each own key.
TypeMap(k) ==
    CASE k \in {"flowchart", "flowchart-v2", "graph"} -> "Flowchart"
      [] k = "sequenceDiagram" -> "Sequence Diagram"
      [] k = "classDiagram" -> "Class Diagram"
      [] k \in {"stateDiagram", "stateDiagram-v2"} -> "State Diagram"
      [] k = "erDiagram" -> "ER Diagram"
      [] k = "journey" -> "User Journey"
      [] k = "gantt" -> "Gantt Chart"
      [] k = "pie" -> "Pie Chart"
      [] k = "quadrantChart" -> "Quadrant Chart"
      [] k = "requirementDiagram" -> "Requirement Diagram"
      [] k = "gitGraph" -> "Git Graph"
      [] k = "mindmap" -> "Mindmap"
      [] k = "timeline" -> "Timeline"
      [] k = "zenuml" -> "ZenUML"
      [] k = "sankey" -> "Sankey Diagram"
      [] k = "block" -> "Block Diagram"
      [] k = "packet" -> "Packet Diagram"

\* typeMap is an object literal, so typeMap[k] also finds what
\* Object.prototype defines: these keys yield a function or an object.
ObjectPrototypeKeys ==
    { "constructor", "toString", "toLocaleString", "valueOf",
      "hasOwnProperty", "isPrototypeOf", "propertyIsEnumerable",
      "__proto__", "__defineGetter__", "__defineSetter__",
      "__lookupGetter__", "__lookupSetter__" }

\* MermaidEncoder.formatDiagramType(diagramType):
\* typeMap[diagramType] || 'Diagram'.
FormatDiagramType(diagramType) ==
    IF diagramType \in TypeMapKeys THEN JsString(TypeMap(diagramType))
    ELSE IF diagramType \in ObjectPrototypeKeys
         THEN JsObject(IF diagramType = "__proto__" THEN "object"
                       ELSE "function", diagramType)
         ELSE JsString("Diagram")

(***************************************************************************)
(* MarkdownParser: what the regular expressions of the pre-processing      *)
(* stages see inside one line.                                             *)
(***************************************************************************)
\* The line holds a code fence (three grave accents) somewhere.
ContainsFence(l) == l \in {"'''", "'''mermaid"}
\* The part of the line before its first code fence.
BeforeFence(l) == ""
\* The part of the line after its first code fence.
AfterFence(l) == IF l = "'''mermaid" THEN "mermaid" ELSE ""
\* The line starts with a code fence.
StartsWithFence(l) == l \in {"'''", "'''mermaid"}
\* The line ends with a code fence.
EndsWithFence(l) == l = "'''"
\* The line is a code fence and nothing else.
IsBareFence(l) == l = "'''"
\* The line ends with a fence tagged mermaid and optional white space:
\* where /'''mermaid\s*\n/ can match.
IsMermaidOpener(l) == l = "'''mermaid"
\* The part of a mermaid opener line before the fence.
BeforeMermaid(l) == ""

\* The line is the front matter delimiter and nothing else.
IsDashes(l) == l = "---"
\* The line starts with the front matter delimiter.
StartsWithDashes(l) == l \in {"---"}
\* The part of the line after the leading delimiter.
AfterDashes(l) == ""

\* calloutMap[type.toLowerCase()] || pushpin + type.toUpperCase(): the label
\* of a callout type.  The emoji a label starts with is written in ASCII.
CalloutLabel(type) ==
    CASE type = "warning" -> "(!) WARNING"
      [] type = "note" -> "(memo) NOTE"
      [] type = "custom" -> "(pin) CUSTOM"

\* The header line convertObsidianCallouts writes for a type and a title.
CalloutHeader(type, title) ==
    IF title # "" THEN "> **" \o CalloutLabel(type) \o ": " \o title \o "**"
    ELSE "> **" \o CalloutLabel(type) \o "**"

\* The replacement of convertObsidianCallouts for a line matching
\* /^> \[!(\w+)\]\s*(.*)$/; any other line is left as it is.
CalloutRewrite(l) ==
    CASE l = "> [!warning] Title" -> CalloutHeader("warning", "Title")
      [] l = "> [!custom]" -> CalloutHeader("custom", "")
      [] OTHER -> l

\* The line consists of #tags separated by white space, the first one at
\* the start of the line: where /#[\w-]+(?:\s+#[\w-]+)*\s*/ matches a line.
IsTagLine(l) == l \in {"#alpha #beta-2"}

\* Every character of the line is one of [\w./\s] or a box-drawing
\* character: the class of the listing test of fixEmptyCodeBlocks.
IsListingLine(l) ==
    l \in {"", "  ", "text", "graph TD", "mermaid", "__MERMAID_BLOCK_0__"}

(***************************************************************************)
(* MarkdownParser: the pre-processing stages.                              *)
(***************************************************************************)
\* The least element of a non-empty set of numbers.
Min(S) == CHOOSE x \in S : \A y \in S : x <= y

\* MarkdownParser.stripFrontmatter: /^---\n[\s\S]*?\n---\n?/ removed.
StripFrontmatter(ls) ==
    LET closers == {j \in 3..Len(ls) : StartsWithDashes(ls[j])}
    IN  IF Len(ls) >= 2 /\ IsDashes(ls[1]) /\ closers # {}
        THEN LET j == Min(closers)
                 rest == SubSeq(ls, j + 1, Len(ls))
             IN  IF AfterDashes(ls[j]) # "" THEN <<AfterDashes(ls[j])>> \o rest
                 ELSE IF j < Len(ls) THEN rest
                 ELSE <<"">>
        ELSE ls

\* convertObsidianCallouts leaving every line as it is (a variant of the
\* code).
ConvertObsidianCalloutsSkipped(ls) == ls

\* MarkdownParser.convertObsidianCallouts.
ConvertObsidianCallouts(ls) == [i \in 1..Len(ls) |-> CalloutRewrite(ls[i])]

\* /^[\w./...\s]+$/m on the trimmed text after an empty code block: some
\* non-empty stretch of whole lines holds only characters of the class.
LooksLikeListing(ls) ==
    \E i \in 1..Len(ls) :
        /\ IsListingLine(ls[i])
        /\ \/ ls[i] # ""
           \/ i < Len(ls) /\ IsListingLine(ls[i + 1])

\* MarkdownParser.fixEmptyCodeBlocks: /'''\n'''\n([\s\S]*?)(?=\n'''|$)/g,
\* the text after an empty code block moved into it when it looks like a
\* file listing.
RECURSIVE FixEmptyCodeBlocks(_)
FixEmptyCodeBlocks(ls) ==
    LET starts == {i \in 1..(Len(ls) - 2) :
                      EndsWithFence(ls[i]) /\ IsBareFence(ls[i + 1])}
    IN  IF starts = {} THEN ls
        ELSE LET i == Min(starts)
                 stops == {j \in (i + 3)..Len(ls) : StartsWithFence(ls[j])}
                 j == IF stops = {} THEN Len(ls) + 1 ELSE Min(stops)
                 following == SubSeq(ls, i + 2, j - 1)
                 rest == SubSeq(ls, j, Len(ls))
                 fixedRest == IF rest = << >> THEN << >>
                              ELSE FixEmptyCodeBlocks(rest)
             IN  IF LooksLikeListing(Trim(following))
                 THEN SubSeq(ls, 1, i) \o Trim(following) \o <<"'''">>
                      \o fixedRest
                 ELSE SubSeq(ls, 1, j - 1) \o fixedRest

\* MarkdownParser.stripTrailingTags:
\* /\n+#[\w-]+(?:\s+#[\w-]+)*\s*$/ removed.
StripTrailingTags(ls) ==
    LET starts == {i \in 2..Len(ls) :
                      /\ IsTagLine(ls[i])
                      /\ \A k \in (i + 1)..Len(ls) :
                            IsTagLine(ls[k]) \/ IsBlankLine(ls[k])}
    IN  IF starts = {} THEN ls
        ELSE LET i == Min(starts)
                 \* the line breaks before the tags: the run of empty lines
                 first == Min({k \in 1..i :
                                 \A m \in k..(i - 1) : ls[m] = ""})
             IN  IF first = 1 THEN <<"">> ELSE SubSeq(ls, 1, first - 1)

(***************************************************************************)
(* MarkdownParser.extractMermaidBlocks.                                    *)
(***************************************************************************)
\* The placeholder of the diagram block numbered n.
Placeholder(n) == "__MERMAID_BLOCK_" \o ToString(n) \o "__"

\* The fault of the encode call made for the diagram block numbered n;
\* faults lists the faults of the first calls, later calls have none.
FaultOf(faults, n) == IF n + 1 <= Len(faults) THEN faults[n + 1] ELSE "none"

\* The mermaidBlocks map with one more entry.
MapSet(map, key, value) == [k \in DOMAIN map \cup {key} |->
                              IF k = key THEN value ELSE map[k]]

\* The replacement callback of extractMermaidBlocks for one match: the
\* lines put in place of the match, and the parser's fields after it.
ReplaceMermaid(before, code, after, counter, map, faults) ==
    LET placeholder == Placeholder(counter)
        diagramType == GetDiagramType(code)
        formattedType == FormatDiagramType(diagramType)
        url == Encode(code, "default", FaultOf(faults, counter))
    IN  IF url.ok
        THEN [lines |-> <<before, placeholder, after>>,
              counter |-> counter + 1,
              map |-> MapSet(map, placeholder,
                             [type |-> "mermaid",
                              diagramType |-> formattedType,
                              code |-> Trim(code),
                              url |-> url.val]),
              log |-> EncodeLog(FaultOf(faults, counter))]
        ELSE \* the catch block: the match is returned as a code block
             [lines |-> <<before, "'''mermaid">>
                        \o SubSeq(code, 1, Len(code) - 1)
                        \o <<code[Len(code)] \o "'''", after>>,
              counter |-> counter + 1,
              map |-> map,
              log |-> <<"Error encoding Mermaid block:">>]

\* content.replace(/'''mermaid\s*\n([\s\S]*?)'''/g, callback): every match
\* from left to right.  A match starts at a mermaid opener line, skips the
\* blank lines after it, and captures up to the first fence that follows.
RECURSIVE ExtractMermaidBlocks(_, _, _, _)
ExtractMermaidBlocks(ls, counter, map, faults) ==
    LET openers == {i \in 1..Len(ls) :
                      /\ IsMermaidOpener(ls[i])
                      /\ \E j \in (i + 1)..Len(ls) : ContainsFence(ls[j])}
    IN  IF openers = {}
        THEN [lines |-> ls, counter |-> counter, map |-> map, log |-> << >>]
        ELSE LET i == Min(openers)
                 j == Min({k \in (i + 1)..Len(ls) : ContainsFence(ls[k])})
                 k == Min({m \in (i + 1)..j : ~IsBlankLine(ls[m])})
                 code == SubSeq(ls, k, j - 1) \o <<BeforeFence(ls[j])>>
                 one == ReplaceMermaid(BeforeMermaid(ls[i]), code,
                                       AfterFence(ls[j]), counter, map, faults)
                 rest == SubSeq(ls, j + 1, Len(ls))
                 more == ExtractMermaidBlocks(rest, one.counter, one.map,
                                              faults)
             IN  [lines |-> SubSeq(ls, 1, i - 1) \o one.lines \o more.lines,
                  counter |-> more.counter,
                  map |-> more.map,
                  log |-> one.log \o more.log]

(***************************************************************************)
(* marked.lexer, the block tokenizer the parser calls (markdownParser.ts   *)
(* lines 86 and 361): blank lines, fenced code, blockquotes with lazy      *)
(* continuation lines, and paragraphs.                                     *)
(***************************************************************************)
\* The line opens a fenced code block.
IsFenceOpen(l) == l \in {"'''", "'''mermaid"}
\* The info string of an opening fence.
FenceLang(l) == IF l = "'''mermaid" THEN "mermaid" ELSE ""
\* The line closes a fenced code block.
IsFenceClose(l) == l = "'''"
\* The lines that start with a blockquote marker.
QuoteLines ==
    {"> text", ">", "> graph TD", "> Body", "> [!warning] Title",
     "> [!custom]", CalloutHeader("warning", "Title"),
     CalloutHeader("custom", "")}
\* The line starts with a blockquote marker.
IsQuoteLine(l) == l \in QuoteLines
\* A blockquote line without its marker.
Unquote(l) ==
    CASE l = "> text" -> "text"
      [] l = "> graph TD" -> "graph TD"
      [] l = ">" -> ""
      [] l = "> Body" -> "Body"
      [] l = "> [!warning] Title" -> "[!warning] Title"
      [] l = "> [!custom]" -> "[!custom]"
      [] l = CalloutHeader("warning", "Title")
            -> "**" \o CalloutLabel("warning") \o ": Title**"
      [] l = CalloutHeader("custom", "") -> "**" \o CalloutLabel("custom") \o "**"
      [] OTHER -> l
\* Deepest nesting of the list items of a text, counted from 0.
MaxListDepth == 3
\* The texts of list items.
ItemTexts == {"a", "b"}

\* The white space before the bullet of a list item nested depth levels
\* deep: two spaces for each level.
RECURSIVE ListIndent(_)
ListIndent(depth) ==
    IF depth = 0 THEN "" ELSE "  " \o ListIndent(depth - 1)

\* The line of an unordered list item.
ListLine(depth, text) == ListIndent(depth) \o "- " \o text

\* The lines of the lists.
ListDocLines == {ListLine(d, t) : d \in 0..MaxListDepth, t \in ItemTexts}

\* The line is a list item: white space, a bullet, a space and a text.
IsListLine(l) == l \in ListDocLines
\* The nesting of a list item line, read off its indentation.
ListDepth(l) ==
    CHOOSE d \in 0..MaxListDepth : \E t \in ItemTexts : l = ListLine(d, t)
\* The text of a list item line.
ListText(l) ==
    CHOOSE t \in ItemTexts : \E d \in 0..MaxListDepth : l = ListLine(d, t)
\* A line of the content of a list item, without the indentation of the
\* content of the item.
Dedent(l) ==
    IF IsListLine(l) /\ ListDepth(l) > 0
    THEN ListLine(ListDepth(l) - 1, ListText(l))
    ELSE l

\* The line is paragraph text: it neither is blank nor starts another block.
IsTextLine(l) ==
    ~IsBlankLine(l) /\ ~IsFenceOpen(l) /\ ~IsQuoteLine(l) /\ ~IsListLine(l)

\* The number of leading list item lines of ls.
RECURSIVE ListRun(_)
ListRun(ls) ==
    IF ls = << >> \/ ~IsListLine(Head(ls)) THEN 0
    ELSE 1 + ListRun(Tail(ls))

\* The number of leading lines of ls that belong to the list item its
\* first line starts: that line, and the lines nested deeper after it.
ItemRun(ls) ==
    LET ends == {k \in 2..Len(ls) : ListDepth(ls[k]) <= ListDepth(ls[1])}
    IN  IF ends = {} THEN Len(ls) ELSE Min(ends) - 1

\* The number of leading blank lines of ls.
RECURSIVE BlankRun(_)
BlankRun(ls) ==
    IF ls = << >> \/ ~IsBlankLine(Head(ls)) THEN 0
    ELSE 1 + BlankRun(Tail(ls))

\* The number of leading paragraph lines of ls.
RECURSIVE TextRun(_)
TextRun(ls) ==
    IF ls = << >> \/ ~IsTextLine(Head(ls)) THEN 0
    ELSE 1 + TextRun(Tail(ls))

\* The number of leading lines of ls that belong to one blockquote: the
\* lines with a marker, and the text lines that lazily continue a paragraph
\* of the quote; inPara tells whether such a paragraph is open.
RECURSIVE QuoteRun(_, _)
QuoteRun(ls, inPara) ==
    IF ls = << >> THEN 0
    ELSE IF IsQuoteLine(Head(ls))
         THEN 1 + QuoteRun(Tail(ls), IsTextLine(Unquote(Head(ls))))
         ELSE IF inPara /\ IsTextLine(Head(ls))
              THEN 1 + QuoteRun(Tail(ls), TRUE)
              ELSE 0

RECURSIVE Lexer(_)

\* The items of a list given as its lines: for each item its text, which
\* is its content without the indentation, and the tokens of that text.
RECURSIVE ListItems(_)
ListItems(ls) ==
    IF ls = << >> THEN << >>
    ELSE LET n == ItemRun(ls)
             nested == [i \in 1..(n - 1) |-> Dedent(ls[i + 1])]
         IN  <<[type |-> "list_item",
                text |-> <<ListText(ls[1])>> \o nested,
                tokens |-> <<[type |-> "text", text |-> <<ListText(ls[1])>>]>>
                           \o Lexer(nested)]>>
             \o ListItems(SubSeq(ls, n + 1, Len(ls)))

\* marked.lexer(src): the block tokens of the text.
Lexer(ls) ==
    IF ls = << >> THEN << >>
    ELSE IF IsBlankLine(Head(ls))
    THEN <<[type |-> "space"]>>
         \o Lexer(SubSeq(ls, BlankRun(ls) + 1, Len(ls)))
    ELSE IF IsFenceOpen(Head(ls))
    THEN LET closers == {j \in 2..Len(ls) : IsFenceClose(ls[j])}
             j == IF closers = {} THEN Len(ls) + 1 ELSE Min(closers)
         IN  <<[type |-> "code", lang |-> FenceLang(Head(ls)),
                text |-> IF j <= 2 THEN <<"">> ELSE SubSeq(ls, 2, j - 1)]>>
             \o Lexer(SubSeq(ls, j + 1, Len(ls)))
    ELSE IF IsQuoteLine(Head(ls))
    THEN LET n == QuoteRun(ls, FALSE)
             inner == [i \in 1..n |-> Unquote(ls[i])]
         IN  <<[type |-> "blockquote", tokens |-> Lexer(inner)]>>
             \o Lexer(SubSeq(ls, n + 1, Len(ls)))
    ELSE IF IsListLine(Head(ls))
    THEN LET n == ListRun(ls)
         IN  <<[type |-> "list", ordered |-> FALSE,
                items |-> ListItems(SubSeq(ls, 1, n))]>>
             \o Lexer(SubSeq(ls, n + 1, Len(ls)))
    ELSE LET n == TextRun(ls)
         IN  <<[type |-> "paragraph", text |-> SubSeq(ls, 1, n)]>>
             \o Lexer(SubSeq(ls, n + 1, Len(ls)))

\* The lines that are strong emphasis, __inner__ or **inner**, and nothing
\* else.
StrongLines ==
    {Placeholder(n) : n \in 0..MaxLines}
    \cup {"**" \o CalloutLabel("warning") \o ": Title**",
          "**" \o CalloutLabel("custom") \o "**"}
\* The line is strong emphasis and nothing else.
IsStrongLine(l) == l \in StrongLines
\* The text inside the strong emphasis of such a line.
StrongInner(l) ==
    CASE l = "**" \o CalloutLabel("warning") \o ": Title**"
            -> CalloutLabel("warning") \o ": Title"
      [] l = "**" \o CalloutLabel("custom") \o "**" -> CalloutLabel("custom")
      [] OTHER -> LET n == CHOOSE m \in 0..MaxLines : l = Placeholder(m)
                  IN  "MERMAID_BLOCK_" \o ToString(n)

\* The inline tokens marked attaches to a paragraph: runs of text, and
\* strong emphasis; pending is the text collected for the next text token.
RECURSIVE InlineTokens(_, _)
InlineTokens(ls, pending) ==
    IF ls = << >>
    THEN IF pending = << >> THEN << >>
         ELSE <<[type |-> "text", text |-> pending]>>
    ELSE IF IsStrongLine(Head(ls))
    THEN (IF pending = << >> THEN << >>
          ELSE <<[type |-> "text", text |-> pending \o <<"">>]>>)
         \o <<[type |-> "strong",
               tokens |-> <<[type |-> "text",
                             text |-> <<StrongInner(Head(ls))>>]>>]>>
         \o InlineTokens(Tail(ls), IF Tail(ls) = << >> THEN << >>
                                   ELSE <<"">>)
    ELSE InlineTokens(Tail(ls), pending \o <<Head(ls)>>)

(***************************************************************************)
(* MarkdownParser: tokens to ContentBlocks.  marked.lexer throws on the    *)
(* texts of throwsOn, and on no other.                                     *)
(***************************************************************************)
\* settings.removeObsidianLinks, as set by DEFAULT_SETTINGS.
RemoveObsidianLinks == TRUE

\* MarkdownParser.convertObsidianLinks on one line: [[link]] and
\* [[link|label]] replaced by their text.
ConvertObsidianLinksLine(l) ==
    CASE l = "see [[note|label]]" -> "see label"
      [] l = "see [[note]]" -> "see note"
      [] OTHER -> l

\* MarkdownParser.convertObsidianLinks.
ConvertObsidianLinks(ls) ==
    [i \in 1..Len(ls) |-> ConvertObsidianLinksLine(ls[i])]

\* MarkdownParser.parseInlineTokens with parseInlineToken.
RECURSIVE ParseInlineTokens(_)
ParseInlineTokens(tokens) ==
    IF tokens = << >> THEN << >>
    ELSE LET t == Head(tokens)
         IN  (IF t.type = "strong"
              THEN <<[type |-> "bold",
                      content |-> ParseInlineTokens(t.tokens)]>>
              ELSE <<[type |-> "text", content |-> t.text]>>)
             \o ParseInlineTokens(Tail(tokens))

\* MarkdownParser.parseInlineContent(text): the completion of the call.
ParseInlineContent(text, throwsOn) ==
    LET linked == IF RemoveObsidianLinks THEN ConvertObsidianLinks(text)
                  ELSE text
    IN  IF linked \in throwsOn THEN Raise
        ELSE LET tokens == Lexer(linked)
             IN  IF Len(tokens) = 1 /\ tokens[1].type = "paragraph"
                 THEN Ok(ParseInlineTokens(
                            InlineTokens(tokens[1].text, << >>)))
                 ELSE Ok(<<[type |-> "text", content |-> linked]>>)

\* The value null.
Null == [type |-> "null"]

\* MarkdownParser.parseParagraph(token): the completion of the call.
ParseParagraph(token, map, throwsOn) ==
    LET text == Trim(token.text)
    IN  IF Len(text) = 1 /\ text[1] \in DOMAIN map
        THEN Ok(map[text[1]])
        ELSE LET content == ParseInlineContent(token.text, throwsOn)
             IN  IF content.ok
                 THEN Ok([type |-> "paragraph", content |-> content.val])
                 ELSE Raise

\* MarkdownParser.parseCode(token).
ParseCode(token) ==
    [type |-> "code",
     language |-> IF token.lang = "" THEN "null" ELSE token.lang,
     content |-> token.text]

\* The index of the first list token of a sequence of tokens, 0 when it
\* holds none.
FirstList(tokens) ==
    IF \A i \in DOMAIN tokens : tokens[i].type # "list" THEN 0
    ELSE Min({i \in DOMAIN tokens : tokens[i].type = "list"})

\* parseList that never sets children (a variant of the code).
RECURSIVE ParseListFlat(_, _)
ParseListFlat(token, throwsOn) ==
    LET contents == [i \in DOMAIN token.items |->
                       ParseInlineContent(token.items[i].text, throwsOn)]
    IN  IF \E i \in DOMAIN contents : ~contents[i].ok THEN Raise
        ELSE Ok([type |-> "list", ordered |-> token.ordered,
                 items |-> [i \in DOMAIN token.items |->
                              [content |-> contents[i].val]]])

\* MarkdownParser.parseList(token): the completion of the call.  An item
\* has the field children when one of its tokens is a list.
RECURSIVE ParseList(_, _)
ParseList(token, throwsOn) ==
    LET contents == [i \in DOMAIN token.items |->
                       ParseInlineContent(token.items[i].text, throwsOn)]
        nested == [i \in DOMAIN token.items |->
                     LET k == FirstList(token.items[i].tokens)
                     IN  IF k = 0 THEN Ok(Null)
                         ELSE ParseList(token.items[i].tokens[k], throwsOn)]
    IN  IF \E i \in DOMAIN contents : ~contents[i].ok \/ ~nested[i].ok
        THEN Raise
        ELSE Ok([type |-> "list", ordered |-> token.ordered,
                 items |-> [i \in DOMAIN token.items |->
                              IF nested[i].val.type = "null"
                              THEN [content |-> contents[i].val]
                              ELSE [content |-> contents[i].val,
                                    children |-> nested[i].val]]])

RECURSIVE TokenToBlock(_, _, _)

\* The loop of MarkdownParser.parseBlockquote over token.tokens: the blocks
\* of the nested tokens, or the exception one of them throws.
RECURSIVE ParseBlockquoteTokens(_, _, _)
ParseBlockquoteTokens(tokens, map, throwsOn) ==
    IF tokens = << >> THEN Ok(<< >>)
    ELSE LET block == TokenToBlock(Head(tokens), map, throwsOn)
         IN  IF ~block.ok THEN Raise
             ELSE LET rest == ParseBlockquoteTokens(Tail(tokens), map,
                                                    throwsOn)
                  IN  IF ~rest.ok THEN Raise
                      ELSE IF block.val.type = "null" THEN rest
                      ELSE Ok(<<block.val>> \o rest.val)

\* MarkdownParser.tokenToBlock(token): the completion of the call, a block
\* or null.
TokenToBlock(token, map, throwsOn) ==
    CASE token.type = "paragraph" -> ParseParagraph(token, map, throwsOn)
      [] token.type = "code" -> Ok(ParseCode(token))
      [] token.type = "blockquote" ->
            LET blocks == ParseBlockquoteTokens(token.tokens, map, throwsOn)
            IN  IF blocks.ok
                THEN Ok([type |-> "blockquote", content |-> blocks.val])
                ELSE Raise
      [] token.type = "list" -> ParseList(token, throwsOn)
      [] token.type = "space" -> Ok(Null)
      [] OTHER -> Ok(Null)

\* The token loop of parse without its try/catch: an exception of one
\* token ends the loop (a variant of the code).
RECURSIVE ConvertTokensUnguarded(_, _, _)
ConvertTokensUnguarded(tokens, map, throwsOn) ==
    IF tokens = << >> THEN [blocks |-> << >>, log |-> << >>]
    ELSE LET block == TokenToBlock(Head(tokens), map, throwsOn)
             rest == ConvertTokensUnguarded(Tail(tokens), map, throwsOn)
         IN  IF ~block.ok
             THEN [blocks |-> << >>, log |-> <<"Error parsing token:">>]
             ELSE [blocks |-> (IF block.val.type = "null" THEN << >>
                               ELSE <<block.val>>) \o rest.blocks,
                   log |-> rest.log]

\* The token loop of parse (lines 89 to 101): each token converted inside
\* its own try/catch; the blocks pushed and the diagnostics logged.
RECURSIVE ConvertTokens(_, _, _)
ConvertTokens(tokens, map, throwsOn) ==
    IF tokens = << >> THEN [blocks |-> << >>, log |-> << >>]
    ELSE LET block == TokenToBlock(Head(tokens), map, throwsOn)
             rest == ConvertTokens(Tail(tokens), map, throwsOn)
         IN  IF ~block.ok
             THEN [blocks |-> rest.blocks,
                   log |-> <<"Error parsing token:">> \o rest.log]
             ELSE [blocks |-> (IF block.val.type = "null" THEN << >>
                               ELSE <<block.val>>) \o rest.blocks,
                   log |-> rest.log]

(***************************************************************************)
(* MarkdownParser.parse.                                                   *)
(***************************************************************************)
\* The arguments parse is called with: null, undefined, or a string.
JsNull == [kind |-> "null", lines |-> << >>]
JsUndefined == [kind |-> "undefined", lines |-> << >>]
JsText(ls) == [kind |-> "string", lines |-> ls]

\* The guard of parse without its tests for a value that is no string:
\* markdown.trim().length === 0 alone (a variant of the code).
IsEmptyInputTrimOnly(markdown) ==
    markdown.kind = "string" /\ IsEmptyString(Trim(markdown.lines))

\* The guard of parse (line 59): nothing to parse.
IsEmptyInput(markdown) ==
    \/ markdown.kind # "string"
    \/ IsEmptyString(markdown.lines)
    \/ IsEmptyString(Trim(markdown.lines))

\* The four text stages of parse before the diagram extraction.
PreProcess(ls) ==
    StripTrailingTags(
        FixEmptyCodeBlocks(ConvertObsidianCallouts(StripFrontmatter(ls))))

\* The end of the try block of parse, once the text is tokenized: the tree
\* of the converted tokens.
ParseReturn(extracted, converted) ==
    [ok |-> TRUE, val |-> [blocks |-> converted.blocks],
     map |-> extracted.map, counter |-> extracted.counter,
     log |-> extracted.log \o converted.log]

\* The second pass of parse (lines 85 to 103) on the text the extraction
\* left: marked.lexer, which may throw, and the token loop.
ParseTokens(extracted, throwsOn) ==
    IF extracted.lines \in throwsOn
    THEN \* marked.lexer throws
         [ok |-> FALSE, val |-> [blocks |-> << >>],
          map |-> extracted.map, counter |-> extracted.counter,
          log |-> extracted.log]
    ELSE ParseReturn(extracted,
                     ConvertTokens(Lexer(extracted.lines), extracted.map,
                                   throwsOn))

\* The body of the try block of parse: the completion it ends with, the
\* parser's fields after it, and the diagnostics logged.
ParseBody(markdown, map, counter, throwsOn, faults) ==
    IF IsEmptyInput(markdown)
    THEN [ok |-> TRUE, val |-> [blocks |-> << >>],
          map |-> map, counter |-> counter, log |-> << >>]
    ELSE IF markdown.kind # "string"
    THEN \* a value without the methods of a string: a TypeError, thrown
         \* by the first of them that is called, after the reset
         [ok |-> FALSE, val |-> [blocks |-> << >>],
          map |-> << >>, counter |-> 0, log |-> << >>]
    ELSE ParseTokens(
             ExtractMermaidBlocks(PreProcess(markdown.lines), 0, << >>,
                                  faults),
             throwsOn)

\* The catch block of parse (lines 105 to 109) applied to the completion of
\* the try block: an exception becomes an empty tree.
ParseCatch(body) ==
    IF body.ok THEN body
    ELSE [body EXCEPT !.ok = TRUE,
                      !.val = [blocks |-> << >>],
                      !.log = body.log \o <<"Markdown parsing error:">>]

\* parse without its outer catch block (a variant of the code).
ParseCallUncaught(markdown, map, counter, throwsOn, faults) ==
    ParseBody(markdown, map, counter, throwsOn, faults)

\* MarkdownParser.parse(markdown): the try block, and the catch block that
\* returns an empty tree.
ParseCall(markdown, map, counter, throwsOn, faults) ==
    ParseCatch(ParseBody(markdown, map, counter, throwsOn, faults))

(***************************************************************************)
(* The state machine: one parser instance, and the calls made on it and on *)
(* the encoder.                                                            *)
(***************************************************************************)
VARIABLES
    mermaidBlocks,   \* MarkdownParser.mermaidBlocks: placeholder -> block
    mermaidCounter,  \* MarkdownParser.mermaidCounter
    phase,           \* "ready", or "returned" once a call has returned
    op,              \* the call made: "parse", "encode" or "humanize"
    input,           \* its arguments
    env,             \* what fails in the host environment during the call
    output,          \* its completion
    console,         \* the diagnostics it logged with console.error
    modal,           \* the ExportModal of the plugin: its fields and button
    calls            \* the calls of GoogleDocsExporterPlugin.exportNote

vars == <<mermaidBlocks, mermaidCounter, phase, op, input, env, output,
          console, modal, calls>>

\* The sequences of length 1 to n over S.
SeqUpTo(S, n) == UNION {[1..k -> S] : k \in 1..n}

\* The markdown texts parse is called with.
MarkdownInputs ==
    {JsNull, JsUndefined} \cup {JsText(ls) : ls \in SeqUpTo(DocLines, MaxLines)}

\* The diagram sources the encoder is called with.
CodeInputs == SeqUpTo(CodeLines, MaxCodeLines)

\* The texts marked.lexer may throw on.
Failable == {<<"text">>}

\* The faults of the encode calls made while parsing.
ParseFaults == {"none", "deflate", "btoa"}

\* The number of diagram blocks extractMermaidBlocks finds in a text.
DiagramCount(markdown) ==
    IF markdown.kind # "string" THEN 0
    ELSE ExtractMermaidBlocks(PreProcess(markdown.lines), 0, << >>,
                              << >>).counter

NoCall == [ok |-> TRUE, val |-> "none"]

\* No ExportModal has been constructed.
NoModal == [opened |-> FALSE, constructed |-> FALSE]

\* new MarkdownParser(settings).
Init ==
    /\ mermaidBlocks = << >>
    /\ mermaidCounter = 0
    /\ phase = "ready"
    /\ op = "none"
    /\ input = "none"
    /\ env = "none"
    /\ output = NoCall
    /\ console = << >>
    /\ modal = NoModal
    /\ calls = << >>

\* The state once parse has returned.
ParseReturned(markdown, throwsOn, faults, done) ==
    /\ mermaidBlocks' = done.map
    /\ mermaidCounter' = done.counter
    /\ phase' = "returned"
    /\ op' = "parse"
    /\ input' = markdown
    /\ env' = [throwsOn |-> throwsOn, faults |-> faults]
    /\ output' = [ok |-> done.ok, val |-> done.val]
    /\ console' = done.log
    /\ UNCHANGED <<modal, calls>>

\* parser.parse(markdown) on a new parser, as the exporters call it.
Parse ==
    /\ phase = "ready"
    /\ \E markdown \in MarkdownInputs, throwsOn \in SUBSET Failable :
       \E faults \in [1..DiagramCount(markdown) -> ParseFaults] :
          ParseReturned(markdown, throwsOn, faults,
                        ParseCall(markdown, mermaidBlocks, mermaidCounter,
                                  throwsOn, faults))

\* MermaidEncoder.encode(code, theme).
EncodeUrl ==
    /\ phase = "ready"
    /\ \E code \in CodeInputs, theme \in Themes, fault \in EncodeFaults :
          /\ phase' = "returned"
          /\ op' = "encode"
          /\ input' = [code |-> code, theme |-> theme]
          /\ env' = [fault |-> fault]
          /\ output' = Encode(code, theme, fault)
          /\ console' = EncodeLog(fault)
    /\ UNCHANGED <<mermaidBlocks, mermaidCounter, modal, calls>>

\* MermaidEncoder.formatDiagramType(MermaidEncoder.getDiagramType(code)).
Humanize ==
    /\ phase = "ready"
    /\ \E code \in CodeInputs :
          /\ phase' = "returned"
          /\ op' = "humanize"
          /\ input' = [code |-> code]
          /\ env' = "none"
          /\ output' = Ok([kind |-> GetDiagramType(code),
                           label |-> FormatDiagramType(GetDiagramType(code))])
          /\ console' = << >>
    /\ UNCHANGED <<mermaidBlocks, mermaidCounter, modal, calls>>

\* The caller drops the result; the next export builds a new parser.
Discard ==
    /\ phase = "returned"
    /\ mermaidBlocks' = << >>
    /\ mermaidCounter' = 0
    /\ phase' = "ready"
    /\ op' = "none"
    /\ input' = "none"
    /\ env' = "none"
    /\ output' = NoCall
    /\ console' = << >>
    /\ UNCHANGED <<modal, calls>>

Next == Parse \/ EncodeUrl \/ Humanize \/ Discard

Spec == Init /\ [][Next]_vars

(***************************************************************************)
(* What the properties below read off a returned call.                     *)
(***************************************************************************)
\* The call o has returned.
Returned(o) == phase = "returned" /\ op = o

\* The set of the elements of a sequence.
Range(s) == {s[i] : i \in DOMAIN s}

\* The DiagramLinks of a tree, in the order of the tree, nested ones too.
RECURSIVE DiagramLinks(_)
DiagramLinks(blocks) ==
    IF blocks = << >> THEN << >>
    ELSE LET b == Head(blocks)
         IN  (IF b.type = "mermaid" THEN <<b>>
              ELSE IF b.type = "blockquote" THEN DiagramLinks(b.content)
              ELSE << >>)
             \o DiagramLinks(Tail(blocks))

\* The lines of text held by inline nodes.
RECURSIVE InlineLines(_)
InlineLines(nodes) ==
    IF nodes = << >> THEN {}
    ELSE LET n == Head(nodes)
         IN  (IF n.type = "bold" THEN InlineLines(n.content)
              ELSE Range(n.content))
             \cup InlineLines(Tail(nodes))

\* The lines of text held by the nodes of a tree, DiagramLinks apart.
RECURSIVE TextLines(_)
TextLines(blocks) ==
    IF blocks = << >> THEN {}
    ELSE LET b == Head(blocks)
         IN  (CASE b.type = "paragraph" -> InlineLines(b.content)
                [] b.type = "code" -> Range(b.content)
                [] b.type = "blockquote" -> TextLines(b.content)
                [] OTHER -> {})
             \cup TextLines(Tail(blocks))

\* The placeholder tokens of the parse, as written and as they read once
\* their underscores are taken as strong emphasis.
PlaceholderTexts ==
    UNION {{Placeholder(n), "MERMAID_BLOCK_" \o ToString(n)} :
             n \in 0..(mermaidCounter - 1)}

\* Every fence of the text opens or closes a fenced block, and every
\* fenced block is closed: inside tells whether a block is open.
RECURSIVE WellFenced(_, _)
WellFenced(ls, inside) ==
    IF ls = << >> THEN ~inside
    ELSE IF inside
         THEN IF IsFenceClose(Head(ls)) THEN WellFenced(Tail(ls), FALSE)
              ELSE ~ContainsFence(Head(ls)) /\ WellFenced(Tail(ls), TRUE)
         ELSE WellFenced(Tail(ls), IsFenceOpen(Head(ls)))

\* The sources of the fenced blocks of a text that are tagged mermaid, in
\* the order of the text, as markdown reads the text.
RECURSIVE DiagramSources(_)
DiagramSources(tokens) ==
    IF tokens = << >> THEN << >>
    ELSE LET t == Head(tokens)
         IN  (IF t.type = "code" /\ t.lang = "mermaid" THEN <<t.text>>
              ELSE IF t.type = "blockquote" THEN DiagramSources(t.tokens)
              ELSE << >>)
             \o DiagramSources(Tail(tokens))

\* The text parse hands to marked.lexer in the returned call.
LexedLines ==
    ExtractMermaidBlocks(PreProcess(input.lines), 0, << >>,
                         env.faults).lines

\* The returned parse went through the tokenizer, which did not throw.
Tokenized ==
    /\ Returned("parse")
    /\ ~IsEmptyInput(input)
    /\ LexedLines \notin env.throwsOn

(***************************************************************************)
(* C1.  Diagram extraction.                                                *)
(***************************************************************************)
\* C1: after parse has returned, every fenced block of the source that is
\* tagged mermaid is one DiagramLink of the tree, in the order of the
\* source, and no placeholder token is left as text in a node of the tree.
\* Stated for the texts whose fences are well formed and on which the
\* tokenizer does not throw.
C1_EveryDiagramOneLink ==
    (Tokenized /\ env.throwsOn = {} /\ WellFenced(input.lines, FALSE))
    => LET links == DiagramLinks(output.val.blocks)
           sources == DiagramSources(Lexer(input.lines))
       IN  /\ Len(links) = Len(sources)
           /\ \A i \in 1..Len(links) : links[i].code = Trim(sources[i])
           /\ TextLines(output.val.blocks) \cap PlaceholderTexts = {}

(***************************************************************************)
(* C2.  Placeholder tokens.                                                *)
(***************************************************************************)
\* C2: the placeholder put in place of a diagram block differs from the
\* other placeholders of the parse and from every text of the document,
\* so that the paragraphs resolved to a DiagramLink are those that stand
\* for an extracted block, one each.  Stated for the texts whose fences
\* are well formed.
C2_PlaceholderCollisionFree ==
    (Tokenized /\ WellFenced(input.lines, FALSE)) =>
        /\ Cardinality(DOMAIN mermaidBlocks) = mermaidCounter
        /\ \A n \in 0..(mermaidCounter - 1) :
              Placeholder(n) \notin Range(input.lines)
        /\ Len(DiagramLinks(output.val.blocks)) <= mermaidCounter

(***************************************************************************)
(* C3, C4, C5.  Failures while the tokens are converted.                   *)
(***************************************************************************)
\* The completions of tokenToBlock for the tokens of a sequence.
Conversions(tokens, map, throwsOn) ==
    [i \in 1..Len(tokens) |-> TokenToBlock(tokens[i], map, throwsOn)]

\* The blocks of the conversions that returned one, in their order.
RECURSIVE KeptBlocks(_)
KeptBlocks(results) ==
    IF results = << >> THEN << >>
    ELSE (IF Head(results).ok /\ Head(results).val.type # "null"
          THEN <<Head(results).val>> ELSE << >>)
         \o KeptBlocks(Tail(results))

\* The conversions of the top-level tokens of the returned parse.
TopConversions ==
    Conversions(Lexer(LexedLines), mermaidBlocks, env.throwsOn)

\* C3: when the conversion of a top-level unit throws, the exception is
\* caught and logged and the unit is skipped: the tree holds the blocks of
\* all the other units, in the order of the source, and one diagnostic is
\* logged for each unit that threw.
C3_FailedUnitSkipped ==
    Tokenized =>
        LET results == TopConversions
        IN  /\ output.ok
            /\ output.val.blocks = KeptBlocks(results)
            /\ Cardinality({i \in DOMAIN console :
                              console[i] = "Error parsing token:"})
               = Cardinality({i \in DOMAIN results : ~results[i].ok})

\* A unit threw between two units that are in the tree.
C3_Witness ==
    /\ Tokenized
    /\ \E i, j, k \in DOMAIN TopConversions :
          /\ i < j /\ j < k
          /\ ~TopConversions[j].ok
          /\ TopConversions[i].ok /\ TopConversions[i].val.type # "null"
          /\ TopConversions[k].ok /\ TopConversions[k].val.type # "null"
    /\ Len(output.val.blocks) >= 2
    /\ "Error parsing token:" \in Range(console)

\* The block a blockquote token stands for when a failure of one of its
\* nested tokens is absorbed inside the blockquote.
QuoteOfKept(token, map, throwsOn) ==
    [type |-> "blockquote",
     content |-> KeptBlocks(Conversions(token.tokens, map, throwsOn))]

\* C4: when the conversion of a block nested in a blockquote throws, the
\* failure is absorbed there: the blockquote is in the tree, with the
\* blocks of its other nested units.
C4_NestedFailureLocal ==
    Tokenized =>
        \A i \in DOMAIN Lexer(LexedLines) :
            LET token == Lexer(LexedLines)[i]
            IN  (/\ token.type = "blockquote"
                 /\ \E r \in Range(Conversions(token.tokens, mermaidBlocks,
                                               env.throwsOn)) : ~r.ok
                 /\ QuoteOfKept(token, mermaidBlocks,
                                env.throwsOn).content # << >>)
                => QuoteOfKept(token, mermaidBlocks, env.throwsOn)
                      \in Range(output.val.blocks)

\* The tokenizer threw on the text of the returned parse.
TokenizerThrew ==
    /\ Returned("parse")
    /\ ~IsEmptyInput(input)
    /\ LexedLines \in env.throwsOn

\* C5: parse returns and never throws; when the tokenizer throws, the
\* exception is caught and logged and the tree returned has no block.
C5_ParseNeverThrows ==
    Returned("parse") =>
        /\ output.ok
        /\ TokenizerThrew =>
              /\ output.val.blocks = << >>
              /\ "Markdown parsing error:" \in Range(console)

\* The tokenizer threw, and parse returned the empty tree.
C5_Witness ==
    /\ TokenizerThrew
    /\ output.ok
    /\ output.val.blocks = << >>
    /\ "Markdown parsing error:" \in Range(console)

(***************************************************************************)
(* C6.  Nothing to parse.                                                  *)
(***************************************************************************)
\* The argument of the returned parse is null, undefined, the empty string
\* or a string of white space only.
NothingToParse ==
    \/ input.kind \in {"null", "undefined"}
    \/ \A i \in DOMAIN input.lines : IsBlankLine(input.lines[i])

\* C6: parse called with null, undefined, the empty string or a string of
\* white space only returns a tree of zero blocks; it does not fail: no
\* exception is thrown, and none is caught and logged.
C6_EmptyInputEmptyTree ==
    (Returned("parse") /\ NothingToParse) =>
        /\ output.ok
        /\ output.val.blocks = << >>
        /\ console = << >>

\* parse returned for a string of white space only.
C6_Witness ==
    /\ Returned("parse")
    /\ input.kind = "string"
    /\ Len(input.lines) >= 2
    /\ NothingToParse
    /\ output.val.blocks = << >>

(***************************************************************************)
(* C7.  An encoding that fails during the extraction.                      *)
(***************************************************************************)
\* The diagram blocks of the returned parse whose encoding failed.
FailedEncodings == {n \in DOMAIN env.faults : env.faults[n] # "none"}

\* The fenced code blocks of a tree that are tagged mermaid.
RECURSIVE MermaidCode(_)
MermaidCode(blocks) ==
    IF blocks = << >> THEN << >>
    ELSE LET b == Head(blocks)
         IN  (IF b.type = "code" /\ b.language = "mermaid" THEN <<b>>
              ELSE IF b.type = "blockquote" THEN MermaidCode(b.content)
              ELSE << >>)
             \o MermaidCode(Tail(blocks))

BeginsWithBaseUrl(url) == Len(url) >= 1 /\ url[1] = BaseUrl

\* C8: encode never throws, and the string it returns begins with
\* https://mermaid.live/edit; so does the url of every DiagramLink of a
\* tree parse returns.
C8_UrlBeginsWithBase ==
    /\ Returned("encode") => (output.ok /\ BeginsWithBaseUrl(output.val))
    /\ (Returned("parse") /\ output.ok) =>
          \A link \in Range(DiagramLinks(output.val.blocks)) :
              BeginsWithBaseUrl(link.url)

\* encode returned although one of its steps threw.
C8_Witness ==
    /\ Returned("encode")
    /\ env.fault \in {"stringify", "utf8", "deflate"}
    /\ output.ok
    /\ BeginsWithBaseUrl(output.val)

\* C9: when a step of encode fails (the serialization of the payload, the
\* compression, or the conversion of the bytes to base64), encode returns
\* the base URL alone, without a fragment.
C9_FailureGivesBareUrl ==
    (Returned("encode") /\ env.fault # "none") =>
        (output.ok /\ output.val = <<BaseUrl>>)

(***************************************************************************)
(* C10.  The label of a diagram.                                           *)
(***************************************************************************)
\* C10: formatDiagramType(getDiagramType(code)) is a non-empty string for
\* every code, and is "Diagram" for every identifier that is not a key
\* of the table of known diagram types.
C10_LabelTotal ==
    Returned("humanize") =>
        /\ output.ok
        /\ output.val.label.jsType = "string"
        /\ output.val.label.str # ""
        /\ output.val.kind \notin TypeMapKeys
              => output.val.label = JsString("Diagram")

(***************************************************************************)
(* Notes with the Obsidian extensions: parse called on texts that hold     *)
(* trailing tags, callouts and lists.                                      *)
(***************************************************************************)
\* Longest text with trailing tags, in lines.
MaxTagDocLines == 5
\* Longest text with callouts, in lines.
MaxCalloutLines == 3

\* The lines of the texts with trailing tags.
TagDocLines == {"text", "", "'''", "#alpha #beta-2"}

\* The lines of the texts with callouts.
CalloutDocLines ==
    {"> [!warning] Title", "> Body", "> [!custom]", "'''", "text"}

\* Longest list, in lines.
MaxListLines == 4

\* The lists: the first item is not indented, and an item is nested at
\* most one level deeper than the item before it.
ListDocs ==
    {ls \in SeqUpTo(ListDocLines, MaxListLines) :
        /\ ListDepth(ls[1]) = 0
        /\ \A i \in 2..Len(ls) : ListDepth(ls[i]) <= ListDepth(ls[i - 1]) + 1}

\* The notes parse is called with.
NoteInputs ==
    {JsText(ls) : ls \in SeqUpTo(TagDocLines, MaxTagDocLines)
                         \cup SeqUpTo(CalloutDocLines, MaxCalloutLines)
                         \cup ListDocs}

\* parser.parse(markdown) on a new parser, for a note; the tokenizer and
\* the encoder do not fail.
ParseNote ==
    /\ phase = "ready"
    /\ \E markdown \in NoteInputs :
          ParseReturned(markdown, {}, << >>,
                        ParseCall(markdown, mermaidBlocks, mermaidCounter,
                                  {}, << >>))

NoteNext == ParseNote \/ Discard

NoteSpec == Init /\ [][NoteNext]_vars

(***************************************************************************)
(* C11.  The content of code blocks.                                       *)
(***************************************************************************)
\* The texts between the fences of the fenced code blocks of a text, in
\* the order of the text, as markdown reads the text.
RECURSIVE CodeSources(_)
CodeSources(tokens) ==
    IF tokens = << >> THEN << >>
    ELSE LET t == Head(tokens)
         IN  (IF t.type = "code" THEN <<t.text>>
              ELSE IF t.type = "blockquote" THEN CodeSources(t.tokens)
              ELSE << >>)
             \o CodeSources(Tail(tokens))

\* The contents of the Code blocks of a tree, in the order of the tree.
RECURSIVE CodeContents(_)
CodeContents(blocks) ==
    IF blocks = << >> THEN << >>
    ELSE LET b == Head(blocks)
         IN  (IF b.type = "code" THEN <<b.content>>
              ELSE IF b.type = "blockquote" THEN CodeContents(b.content)
              ELSE << >>)
             \o CodeContents(Tail(blocks))

\* C11: every fenced code block of the source is a Code block of the tree
\* whose content is the text between the fences, character for character:
\* the stages of parse that run before the tokenizer leave the text inside
\* a code fence as it is.  Stated for the texts whose fences are well
\* formed and in which the code-fence repair finds nothing to repair.
C11_CodeContentExact ==
    (/\ Returned("parse")
     /\ input.kind = "string"
     /\ WellFenced(input.lines, FALSE)
     /\ FixEmptyCodeBlocks(input.lines) = input.lines)
    => CodeContents(output.val.blocks) = CodeSources(Lexer(input.lines))

(***************************************************************************)
(* C12.  The front matter stage, called on its own.                        *)
(***************************************************************************)
\* Longest text handed to stripFrontmatter, in lines.
MaxFrontLines == 4

\* The lines of the texts handed to stripFrontmatter.
FrontLines == {"---", "title: x", "text", ""}

\* this.stripFrontmatter(content), the first stage of parse.
StripFront ==
    /\ phase = "ready"
    /\ \E ls \in SeqUpTo(FrontLines, MaxFrontLines) :
          /\ phase' = "returned"
          /\ op' = "stripFrontmatter"
          /\ input' = JsText(ls)
          /\ env' = "none"
          /\ output' = Ok(StripFrontmatter(ls))
          /\ console' = << >>
    /\ UNCHANGED <<mermaidBlocks, mermaidCounter, modal, calls>>

FrontNext == StripFront \/ Discard

FrontSpec == Init /\ [][FrontNext]_vars

\* The text begins with a delimiter line and holds another one.
HasFrontmatter(ls) ==
    /\ ls[1] = "---"
    /\ \E j \in 2..Len(ls) : ls[j] = "---"

\* The text after the first delimiter line that follows line 1.
AfterFrontmatter(ls) ==
    LET j == Min({k \in 2..Len(ls) : ls[k] = "---"})
    IN  IF j = Len(ls) THEN <<"">> ELSE SubSeq(ls, j + 1, Len(ls))

\* C12: when the text begins with a line that is --- and nothing else,
\* the front matter stage removes everything up to and including the next
\* line that is --- and nothing else, and leaves what follows that line
\* as it is.
C12_FrontmatterRemoved ==
    (Returned("stripFrontmatter") /\ HasFrontmatter(input.lines))
    => output.val = AfterFrontmatter(input.lines)

(***************************************************************************)
(* C13.  Trailing tags.                                                    *)
(***************************************************************************)
\* The lines of text held by the inline nodes of the paragraphs of a tree.
RECURSIVE ParagraphLines(_)
ParagraphLines(blocks) ==
    IF blocks = << >> THEN {}
    ELSE LET b == Head(blocks)
         IN  (CASE b.type = "paragraph" -> InlineLines(b.content)
                [] b.type = "blockquote" -> ParagraphLines(b.content)
                [] OTHER -> {})
             \cup ParagraphLines(Tail(blocks))

\* The last line of the text holds only tags, the line before it is
\* empty, and no other line holds tags.
EndsWithTags(ls) ==
    /\ Len(ls) >= 2
    /\ IsTagLine(ls[Len(ls)])
    /\ ls[Len(ls) - 1] = ""
    /\ \A i \in 1..(Len(ls) - 1) : ~IsTagLine(ls[i])

\* C13: a last line that holds only tags and follows an empty line is
\* deleted before the text is tokenized, and no inline text node of the
\* tree holds the tags.
C13_TrailingTagsDeleted ==
    (/\ Returned("parse")
     /\ input.kind = "string"
     /\ EndsWithTags(input.lines))
    => /\ \A i \in DOMAIN LexedLines : ~IsTagLine(LexedLines[i])
       /\ \A l \in ParagraphLines(output.val.blocks) : ~IsTagLine(l)

(***************************************************************************)
(* C14.  Callouts.                                                         *)
(***************************************************************************)
\* The type of a callout header line of the source.
CalloutType(l) ==
    CASE l = "> [!warning] Title" -> "warning"
      [] l = "> [!custom]" -> "custom"

\* The title of a callout header line of the source.
CalloutTitle(l) ==
    CASE l = "> [!warning] Title" -> "Title"
      [] l = "> [!custom]" -> ""

\* The returned parse was given a callout header followed by "> Body".
CalloutParsed ==
    /\ Returned("parse")
    /\ input.kind = "string"
    /\ Len(input.lines) = 2
    /\ input.lines[1] \in {"> [!warning] Title", "> [!custom]"}
    /\ input.lines[2] = "> Body"

\* The line of text starts with the label of the callout type.
StartsWithLabel(l, type) ==
    l \in {CalloutLabel(type), CalloutLabel(type) \o ": Title"}

\* The tree is one Blockquote whose first block holds the label.
OneQuoteWithLabel ==
    /\ Len(output.val.blocks) = 1
    /\ output.val.blocks[1].type = "blockquote"
    /\ Len(output.val.blocks[1].content) >= 1
    /\ output.val.blocks[1].content[1].type = "paragraph"
    /\ \E l \in InlineLines(output.val.blocks[1].content[1].content) :
          StartsWithLabel(l, CalloutType(input.lines[1]))

HeaderText(l) ==
    IF CalloutTitle(l) # ""
    THEN CalloutLabel(CalloutType(l)) \o ": " \o CalloutTitle(l)
    ELSE CalloutLabel(CalloutType(l))

ListParsed ==
    /\ Returned("parse")
    /\ input.kind = "string"
    /\ input.lines \in ListDocs

\* The items of a List block and of the lists below it, each with its
\* depth and the first line of its text, parents before their children.
RECURSIVE Outline(_, _)
Outline(list, depth) ==
    LET RECURSIVE From(_)
        From(i) ==
            IF i > Len(list.items) THEN << >>
            ELSE <<[depth |-> depth,
                    text |-> list.items[i].content[1].content[1]]>>
                 \o (IF "children" \in DOMAIN list.items[i]
                     THEN Outline(list.items[i].children, depth + 1)
                     ELSE << >>)
                 \o From(i + 1)
    IN  From(1)

\* The number of Lists on the chain items[0].children of a List block.
RECURSIVE ChainDepth(_)
ChainDepth(list) ==
    IF "children" \in DOMAIN list.items[1]
    THEN 1 + ChainDepth(list.items[1].children)
    ELSE 1

\* C15: a list parses into one List block that nests as the source does:
\* an item that is followed by more deeply indented items carries them as
\* its children, an item that is not has no children, so that a list
\* nested N levels deep has an items[0].children chain of depth N.
C15_ListNesting ==
    ListParsed =>
        /\ Len(output.val.blocks) = 1
        /\ output.val.blocks[1].type = "list"
        /\ Outline(output.val.blocks[1], 0)
           = [i \in DOMAIN input.lines |->
                [depth |-> ListDepth(input.lines[i]),
                 text |-> ListText(input.lines[i])]]
        /\ (\A i \in DOMAIN input.lines : ListDepth(input.lines[i]) = i - 1)
              => ChainDepth(output.val.blocks[1]) = Len(input.lines)

\* parse returned for a list nested three levels deep.
C15_Witness ==
    /\ ListParsed
    /\ input.lines = <<ListLine(0, "a"), ListLine(1, "b"), ListLine(2, "a")>>
    /\ ChainDepth(output.val.blocks[1]) = 3

(***************************************************************************)
(* The renderers.  A document tree (types.ts) is rendered by three         *)
(* exporters: DocxExporter builds docx objects, ClipboardExporter and      *)
(* HtmlExporter build HTML text.  An HTML text is the sequence of its      *)
(* pieces (tags and escaped texts); the empty text is the empty sequence.  *)
(***************************************************************************)
\* The concatenation of the sequences of a sequence.
RECURSIVE Spread(_)
Spread(seqs) ==
    IF seqs = << >> THEN << >> ELSE Head(seqs) \o Spread(Tail(seqs))

\* The outcome of a loop that appends what each step returns: the first
\* step that throws ends the loop.
Collect(steps) ==
    IF \E i \in DOMAIN steps : ~steps[i].ok THEN Raise
    ELSE Ok(Spread([i \in DOMAIN steps |-> steps[i].val]))

\* The property of an object is set.
Has(object, field) == field \in DOMAIN object

\* A value that is not undefined.
Defined(value) == [defined |-> TRUE, val |-> value]

\* object.field: undefined when the property is not set.
Get(object, field) ==
    IF Has(object, field) THEN Defined(object[field])
    ELSE [defined |-> FALSE, val |-> << >>]

\* for (const item of value) and value.split throw a TypeError when value
\* is undefined.
IsIterable(value) == value.defined

\* DEFAULT_SETTINGS, with the image handling chosen by the user.  The
\* pictograph in front of the link text is left out.
Settings(imageHandling) ==
    [mermaidLinkText |-> "View Diagram",
     includeMermaidType |-> TRUE,
     codeBlockFont |-> "Consolas",
     codeBlockBackground |-> "#f5f5f5",
     includeLanguageLabel |-> TRUE,
     imageHandling |-> imageHandling]

(***************************************************************************)
(* DocxExporter.                                                           *)
(***************************************************************************)
\* new TextRun({text, bold, italics, strike, ...}): formatting holds the
\* flags that are true, look the font, style or colour of the run.
NewTextRun(text, formatting, look) ==
    [class |-> "TextRun", text |-> text, formatting |-> formatting,
     look |-> look]

\* new ExternalHyperlink({children, link}).
NewExternalHyperlink(children, link) ==
    [class |-> "ExternalHyperlink", children |-> children, link |-> link]

\* new Paragraph({children, ...}).
NewParagraph(children, look) ==
    [class |-> "Paragraph", children |-> children, look |-> look,
     numbering |-> "none", level |-> 0, indent |-> 0, border |-> "none"]

\* new TableCell({children: [new Paragraph({children: textRuns})], shading}).
NewTableCell(textRuns, shading) ==
    [class |-> "TableCell", children |-> <<NewParagraph(textRuns, "plain")>>,
     shading |-> shading]

\* new TableRow({children}).
NewTableRow(cells) == [class |-> "TableRow", children |-> cells]

\* new Table({rows, width}).
NewTable(rows) == [class |-> "Table", rows |-> rows]

\* {...inheritedFormatting, flag: true} keeps the inherited flag only.
WithFormatReplaced(inheritedFormatting, flag) == {flag}

\* {...inheritedFormatting, flag: true}.
WithFormat(inheritedFormatting, flag) == inheritedFormatting \cup {flag}

\* DocxExporter.inlineContentToTextRuns.
RECURSIVE InlineContentToTextRuns(_, _, _)
InlineContentToTextRuns(item, settings, inheritedFormatting) ==
    LET Nested(content, formatting) ==
            IF ~IsIterable(content) THEN Raise
            ELSE Collect([i \in DOMAIN content.val |->
                     InlineContentToTextRuns(content.val[i], settings,
                                             formatting)])
    IN  CASE item.type = "text" ->
               Ok(<<NewTextRun(item.content, inheritedFormatting, "plain")>>)
          [] item.type = "bold" ->
               Nested(Get(item, "content"),
                      WithFormat(inheritedFormatting, "bold"))
          [] item.type = "italic" ->
               Nested(Get(item, "content"),
                      WithFormat(inheritedFormatting, "italics"))
          [] item.type = "strikethrough" ->
               Nested(Get(item, "content"),
                      WithFormat(inheritedFormatting, "strike"))
          [] item.type = "code" ->
               Ok(<<NewTextRun(item.content, inheritedFormatting,
                               settings.codeBlockFont)>>)
          [] item.type = "link" ->
               LET runs == Nested(Get(item, "text"), inheritedFormatting)
               IN  IF ~runs.ok THEN Raise
                   ELSE Ok(<<NewExternalHyperlink(
                               SelectSeq(runs.val,
                                   LAMBDA run : run.class = "TextRun"),
                               item.url)>>)
          [] OTHER -> Ok(<< >>)

\* DocxExporter.inlineToTextRuns.
InlineToTextRuns(content, settings) ==
    IF ~IsIterable(content) THEN Raise
    ELSE Collect([i \in DOMAIN content.val |->
                     InlineContentToTextRuns(content.val[i], settings, {})])

\* DocxExporter.getHeadingLevel.
GetHeadingLevel(level) ==
    CASE level = 1 -> "HEADING_1"
      [] level = 2 -> "HEADING_2"
      [] level = 3 -> "HEADING_3"
      [] level = 4 -> "HEADING_4"
      [] level = 5 -> "HEADING_5"
      [] level = 6 -> "HEADING_6"
      [] OTHER -> "undefined"

\* DocxExporter.createHeading.
CreateHeading(block, settings) ==
    LET textRuns == InlineToTextRuns(Get(block, "content"), settings)
    IN  IF ~textRuns.ok THEN Raise
        ELSE Ok(<<NewParagraph(textRuns.val, GetHeadingLevel(block.level))>>)

\* DocxExporter.createParagraph.
CreateParagraph(block, settings) ==
    LET textRuns == InlineToTextRuns(Get(block, "content"), settings)
    IN  IF ~textRuns.ok THEN Raise
        ELSE Ok(<<NewParagraph(textRuns.val, "plain")>>)

\* DocxExporter.createHorizontalRule.
CreateHorizontalRule ==
    [NewParagraph(<< >>, "plain") EXCEPT !.border = "bottom"]

\* DocxExporter.createCodeBlock; block.content is given as its lines and a
\* language of null as the empty string.
CreateCodeBlock(block, settings) ==
    LET lines == Get(block, "content")
        label == IF settings.includeLanguageLabel /\ block.language # ""
                 THEN <<NewParagraph(<<NewTextRun(block.language, {"bold"},
                                                  "plain")>>, "label")>>
                 ELSE << >>
    IN  IF ~IsIterable(lines) THEN Raise
        ELSE Ok(label \o
                [i \in DOMAIN lines.val |->
                    NewParagraph(
                        <<NewTextRun(IF lines.val[i] = "" THEN " "
                                     ELSE lines.val[i],
                                     {}, settings.codeBlockFont)>>,
                        "shaded")])

\* The text of the link to a diagram.
MermaidLinkText(block, settings) ==
    IF settings.includeMermaidType /\ block.diagramType # ""
    THEN settings.mermaidLinkText \o " (" \o block.diagramType \o ")"
    ELSE settings.mermaidLinkText

\* DocxExporter.createMermaidLink.
CreateMermaidLink(block, settings) ==
    NewParagraph(
        <<NewExternalHyperlink(
            <<NewTextRun(MermaidLinkText(block, settings), {}, "Hyperlink")>>,
            block.url)>>,
        "plain")

\* DocxExporter.createList.
RECURSIVE CreateList(_, _, _)
CreateList(block, settings, level) ==
    LET Item(item) ==
            LET textRuns == InlineToTextRuns(Get(item, "content"), settings)
                nested == IF Has(item, "children")
                          THEN CreateList(item.children, settings, level + 1)
                          ELSE Ok(<< >>)
            IN  IF ~textRuns.ok \/ ~nested.ok THEN Raise
                ELSE Ok(<<[NewParagraph(textRuns.val, "plain")
                           EXCEPT !.numbering =
                                      IF block.ordered THEN "ordered-list"
                                      ELSE "unordered-list",
                                  !.level = level]>> \o nested.val)
    IN  IF ~IsIterable(Get(block, "items")) THEN Raise
        ELSE Collect([i \in DOMAIN block.items |-> Item(block.items[i])])

\* The cells of one row of a table, header or data.
TableCells(cells, settings, shading) ==
    IF ~IsIterable(cells) THEN Raise
    ELSE LET runs == [i \in DOMAIN cells.val |->
                         InlineToTextRuns(Defined(cells.val[i]), settings)]
         IN  IF \E i \in DOMAIN runs : ~runs[i].ok THEN Raise
             ELSE Ok([i \in DOMAIN runs |->
                         NewTableCell(runs[i].val, shading)])

\* DocxExporter.createTable.
CreateTable(block, settings) ==
    LET headerCells == TableCells(Get(block, "headers"), settings, "D3D3D3")
        rows == Get(block, "rows")
        dataCells == [i \in DOMAIN rows.val |->
                         TableCells(Defined(rows.val[i]), settings, "none")]
    IN  IF ~headerCells.ok \/ ~IsIterable(rows) THEN Raise
        ELSE IF \E i \in DOMAIN dataCells : ~dataCells[i].ok THEN Raise
        ELSE Ok(<<NewTable(<<NewTableRow(headerCells.val)>> \o
                           [i \in DOMAIN dataCells |->
                               NewTableRow(dataCells[i].val)])>>)

\* DocxExporter.createImagePlaceholder.
CreateImagePlaceholder(block, settings) ==
    LET placeholder ==
            <<NewTextRun("[Image: "
                         \o (IF block.alt = "" THEN "Untitled" ELSE block.alt)
                         \o "]", {"italics"}, "666666")>>
    IN  CASE settings.imageHandling = "embed" ->
               NewParagraph(placeholder, "plain")
          [] settings.imageHandling = "link" ->
               NewParagraph(
                   <<NewExternalHyperlink(
                       <<NewTextRun(IF block.alt = "" THEN "Image"
                                    ELSE block.alt, {}, "Hyperlink")>>,
                       block.url)>>,
                   "plain")
          [] settings.imageHandling = "skip" -> NewParagraph(<< >>, "plain")
          [] OTHER -> NewParagraph(placeholder, "plain")

\* The case 'image' of blockToDocx without its test of the setting.
ImageToDocxUnfiltered(block, settings) ==
    <<CreateImagePlaceholder(block, settings)>>

\* The case 'image' of blockToDocx.
ImageToDocx(block, settings) ==
    IF settings.imageHandling = "skip" THEN << >>
    ELSE <<CreateImagePlaceholder(block, settings)>>

\* The paragraph or HTML text that stands for a block that failed.
ErrorText(block) == "[Error rendering " \o block.type \o " block]"

RECURSIVE BlockToDocx(_, _)
RECURSIVE DocxSwitch(_, _)
\* {...element} for a Paragraph.  The spread copies the own properties of
\* the instance.  The exporter gives a paragraph its runs, heading style
\* and numbering as options of the constructor (children, text, heading,
\* numbering, ...), and the instance keeps them as XML components, not
\* under the names of the options: the copy has none of the options the
\* constructor reads.
SpreadParagraph(element) == NewParagraph(<< >>, "plain")

\* DocxExporter.createBlockquote.
RECURSIVE CreateBlockquote(_, _)
CreateBlockquote(block, settings) ==
    LET Styled(element) ==
            IF element.class = "Paragraph"
            THEN [SpreadParagraph(element)
                  EXCEPT !.indent = 720, !.border = "left"]
            ELSE NewParagraph(
                     <<NewTextRun("[Table in blockquote - formatting limited]",
                                  {}, "plain")>>, "plain")
        Quoted(contentBlock) ==
            LET elements == BlockToDocx(contentBlock, settings)
            IN  IF ~elements.ok THEN Raise
                ELSE Ok([i \in DOMAIN elements.val |->
                            Styled(elements.val[i])])
    IN  IF ~IsIterable(Get(block, "content")) THEN Raise
        ELSE Collect([i \in DOMAIN block.content |->
                         Quoted(block.content[i])])

\* The switch statement of blockToDocx.
DocxSwitch(block, settings) ==
    CASE block.type = "heading" -> CreateHeading(block, settings)
      [] block.type = "paragraph" -> CreateParagraph(block, settings)
      [] block.type = "code" -> CreateCodeBlock(block, settings)
      [] block.type = "mermaid" -> Ok(<<CreateMermaidLink(block, settings)>>)
      [] block.type = "list" -> CreateList(block, settings, 0)
      [] block.type = "table" -> CreateTable(block, settings)
      [] block.type = "blockquote" -> CreateBlockquote(block, settings)
      [] block.type = "hr" -> Ok(<<CreateHorizontalRule>>)
      [] block.type = "image" -> Ok(ImageToDocx(block, settings))
      [] OTHER -> Ok(<< >>)

\* DocxExporter.blockToDocx.  Reading block.type of null throws, inside
\* the try and again inside the catch.
BlockToDocx(block, settings) ==
    IF block = JsNull THEN Raise
    ELSE IF DocxSwitch(block, settings).ok THEN DocxSwitch(block, settings)
    ELSE Ok(<<NewParagraph(
                <<NewTextRun(ErrorText(block), {"italics"}, "999999")>>,
                "plain")>>)

RECURSIVE BlockToDocxLog(_, _)
\* What a loop over blocks that calls blockToDocx logs with console.error;
\* the loop ends at a block that is null.
RECURSIVE CreateDocumentLog(_, _)
CreateDocumentLog(blocks, settings) ==
    IF blocks = << >> THEN << >>
    ELSE BlockToDocxLog(Head(blocks), settings)
         \o (IF Head(blocks) = JsNull THEN << >>
             ELSE CreateDocumentLog(Tail(blocks), settings))

\* What blockToDocx logs with console.error, the blocks of a blockquote
\* first.
BlockToDocxLog(block, settings) ==
    IF block = JsNull THEN <<"Error converting block to DOCX:">>
    ELSE (IF block.type = "blockquote" /\ IsIterable(Get(block, "content"))
          THEN CreateDocumentLog(block.content, settings) ELSE << >>)
         \o (IF DocxSwitch(block, settings).ok THEN << >>
             ELSE <<"Error converting block to DOCX:", "Block type:">>)

\* The numbering configuration createDocument gives the Document: the
\* levels each reference defines.
NumberingLevels == 0..3
NumberingConfig ==
    [reference \in {"unordered-list", "ordered-list"} |-> NumberingLevels]

\* DocxExporter.createDocument.
CreateDocument(content, settings) ==
    LET children == Collect([i \in DOMAIN content.blocks |->
                                BlockToDocx(content.blocks[i], settings)])
    IN  IF ~children.ok THEN Raise
        ELSE Ok([class |-> "Document", numbering |-> NumberingConfig,
                 children |-> children.val])

(***************************************************************************)
(* ClipboardExporter.                                                      *)
(***************************************************************************)
\* The entity escapeHtml writes for a character: its map, and the
\* characters the regular expression /[&<>"']/g leaves alone.
EscapeChar(char) ==
    CASE char = "&" -> "&amp;"
      [] char = "<" -> "&lt;"
      [] char = ">" -> "&gt;"
      [] char = "\"" -> "&quot;"
      [] char = "'" -> "&#039;"
      [] OTHER -> char

\* escapeHtml with a map that holds the ampersand only.
RECURSIVE EscapeHtmlAmpersandOnly(_)
EscapeHtmlAmpersandOnly(text) ==
    IF text = "" THEN ""
    ELSE (IF SubSeq(text, 1, 1) = "&" THEN "&amp;" ELSE SubSeq(text, 1, 1))
         \o EscapeHtmlAmpersandOnly(SubSeq(text, 2, Len(text)))

\* ClipboardExporter.escapeHtml and HtmlExporter.escapeHtml, which are the
\* same function: every character of the text, replaced or kept.
RECURSIVE EscapeHtml(_)
EscapeHtml(text) ==
    IF text = "" THEN ""
    ELSE EscapeChar(SubSeq(text, 1, 1))
         \o EscapeHtml(SubSeq(text, 2, Len(text)))

\* A text as a piece of HTML: the empty text adds nothing.
Piece(text) == IF text = "" THEN << >> ELSE <<text>>

\* ClipboardExporter.inlineContentToHtml.
RECURSIVE ClipboardInlineContentToHtml(_, _)
ClipboardInlineContentToHtml(item, settings) ==
    LET Nested(content) ==
            IF ~IsIterable(content) THEN Raise
            ELSE Collect([i \in DOMAIN content.val |->
                     ClipboardInlineContentToHtml(content.val[i], settings)])
        Wrapped(open, content, close) ==
            IF ~Nested(content).ok THEN Raise
            ELSE Ok(<<open>> \o Nested(content).val \o <<close>>)
    IN  CASE item.type = "text" -> Ok(Piece(EscapeHtml(item.content)))
          [] item.type = "bold" ->
               Wrapped("<strong>", Get(item, "content"), "</strong>")
          [] item.type = "italic" ->
               Wrapped("<em>", Get(item, "content"), "</em>")
          [] item.type = "strikethrough" ->
               Wrapped("<del>", Get(item, "content"), "</del>")
          [] item.type = "code" ->
               Ok(<<"<code style=\"font-family: " \o settings.codeBlockFont
                    \o ", monospace;\">">>
                  \o Piece(EscapeHtml(item.content)) \o <<"</code>">>)
          [] item.type = "link" ->
               IF ~Nested(Get(item, "text")).ok THEN Raise
               ELSE Ok(<<"<a href=\"", EscapeHtml(item.url), "\">">>
                       \o Nested(Get(item, "text")).val \o <<"</a>">>)
          [] OTHER -> Ok(<< >>)

\* ClipboardExporter.inlineToHtml.
ClipboardInlineToHtml(content, settings) ==
    IF ~IsIterable(content) THEN Raise
    ELSE Collect([i \in DOMAIN content.val |->
                     ClipboardInlineContentToHtml(content.val[i], settings)])

\* ClipboardExporter.headingToHtml.
ClipboardHeadingToHtml(block, settings) ==
    LET content == ClipboardInlineToHtml(Get(block, "content"), settings)
    IN  IF ~content.ok THEN Raise
        ELSE Ok(<<"<h" \o ToString(block.level) \o ">">> \o content.val
                \o <<"</h" \o ToString(block.level) \o ">">>)

\* ClipboardExporter.paragraphToHtml.
ClipboardParagraphToHtml(block, settings) ==
    LET content == ClipboardInlineToHtml(Get(block, "content"), settings)
    IN  IF ~content.ok THEN Raise
        ELSE Ok(<<"<p>">> \o content.val \o <<"</p>">>)

\* ClipboardExporter.codeBlockToHtml; the lines of block.content are
\* escaped one by one.
ClipboardCodeBlockToHtml(block, settings) ==
    LET lines == Get(block, "content")
        label == IF settings.includeLanguageLabel /\ block.language # ""
                 THEN <<"<p><strong>", EscapeHtml(block.language),
                        "</strong></p>">>
                 ELSE << >>
    IN  IF ~IsIterable(lines) THEN Raise
        ELSE Ok(label
                \o <<"<pre style=\"font-family: " \o settings.codeBlockFont
                     \o ", monospace; background-color: "
                     \o settings.codeBlockBackground
                     \o "; padding: 10px; white-space: pre-wrap; "
                     \o "overflow-x: auto;\"><code>">>
                \o [i \in DOMAIN lines.val |-> EscapeHtml(lines.val[i])]
                \o <<"</code></pre>">>)

\* ClipboardExporter.mermaidToHtml.
ClipboardMermaidToHtml(block, settings) ==
    <<"<p><a href=\"", EscapeHtml(block.url), "\">",
      EscapeHtml(MermaidLinkText(block, settings)), "</a></p>">>

\* ClipboardExporter.listToHtml.
RECURSIVE ClipboardListToHtml(_, _)
ClipboardListToHtml(block, settings) ==
    LET tag == IF block.ordered THEN "ol" ELSE "ul"
        Item(item) ==
            LET content == ClipboardInlineToHtml(Get(item, "content"),
                                                 settings)
                nested == IF Has(item, "children")
                          THEN ClipboardListToHtml(item.children, settings)
                          ELSE Ok(<< >>)
            IN  IF ~content.ok \/ ~nested.ok THEN Raise
                ELSE Ok(<<"<li>">> \o content.val \o nested.val
                        \o <<"</li>">>)
        items == Collect([i \in DOMAIN block.items |-> Item(block.items[i])])
    IN  IF ~IsIterable(Get(block, "items")) THEN Raise
        ELSE IF ~items.ok THEN Raise
        ELSE Ok(<<"<" \o tag \o ">">> \o items.val \o <<"</" \o tag \o ">">>)

\* The cells of one row of an HTML table, each between open and close.
ClipboardCells(cells, settings, open, close) ==
    IF ~IsIterable(cells) THEN Raise
    ELSE LET Cell(cell) ==
                 LET content == ClipboardInlineToHtml(cell, settings)
                 IN  IF ~content.ok THEN Raise
                     ELSE Ok(<<open>> \o content.val \o <<close>>)
         IN  Collect([i \in DOMAIN cells.val |->
                         Cell(Defined(cells.val[i]))])

\* ClipboardExporter.tableToHtml.
ClipboardTableToHtml(block, settings) ==
    LET headers == ClipboardCells(Get(block, "headers"), settings,
                       "<th style=\"background-color: #d3d3d3; padding: 8px;\">",
                       "</th>")
        rows == Get(block, "rows")
        Row(row) ==
            LET cells == ClipboardCells(row, settings,
                             "<td style=\"padding: 8px;\">", "</td>")
            IN  IF ~cells.ok THEN Raise
                ELSE Ok(<<"<tr>">> \o cells.val \o <<"</tr>">>)
        body == Collect([i \in DOMAIN rows.val |->
                            Row(Defined(rows.val[i]))])
    IN  IF ~headers.ok \/ ~IsIterable(rows) THEN Raise
        ELSE IF ~body.ok THEN Raise
        ELSE Ok(<<"<table border=\"1\" style=\"border-collapse: collapse; width: 100%;\">",
                  "<thead><tr>">> \o headers.val
                \o <<"</tr></thead>", "<tbody>">> \o body.val
                \o <<"</tbody>", "</table>">>)

\* ClipboardExporter.imageToHtml.
ClipboardImageToHtml(block, settings) ==
    CASE settings.imageHandling = "embed" ->
           <<"<img src=\"", EscapeHtml(block.url), "\" alt=\"">>
           \o Piece(EscapeHtml(block.alt)) \o <<"\">">>
      [] settings.imageHandling = "link" ->
           <<"<p><a href=\"", EscapeHtml(block.url), "\">",
             EscapeHtml(IF block.alt = "" THEN "Image" ELSE block.alt),
             "</a></p>">>
      [] settings.imageHandling = "skip" -> << >>
      [] OTHER -> << >>

RECURSIVE ClipboardBlockToHtml(_, _)
RECURSIVE ClipboardSwitch(_, _)
\* ClipboardExporter.blockquoteToHtml.
ClipboardBlockquoteToHtml(block, settings) ==
    LET content == Get(block, "content")
        quoted == Collect([i \in DOMAIN content.val |->
                              ClipboardBlockToHtml(content.val[i], settings)])
    IN  IF ~IsIterable(content) THEN Raise
        ELSE IF ~quoted.ok THEN Raise
        ELSE Ok(<<"<blockquote style=\"border-left: 3px solid #999; padding-left: 15px; margin-left: 0;\">">>
                \o quoted.val \o <<"</blockquote>">>)

\* The switch statement of ClipboardExporter.blockToHtml.
ClipboardSwitch(block, settings) ==
    CASE block.type = "heading" -> ClipboardHeadingToHtml(block, settings)
      [] block.type = "paragraph" -> ClipboardParagraphToHtml(block, settings)
      [] block.type = "code" -> ClipboardCodeBlockToHtml(block, settings)
      [] block.type = "mermaid" -> Ok(ClipboardMermaidToHtml(block, settings))
      [] block.type = "list" -> ClipboardListToHtml(block, settings)
      [] block.type = "table" -> ClipboardTableToHtml(block, settings)
      [] block.type = "blockquote" ->
           ClipboardBlockquoteToHtml(block, settings)
      [] block.type = "hr" -> Ok(<<"<hr>">>)
      [] block.type = "image" -> Ok(ClipboardImageToHtml(block, settings))
      [] OTHER -> Ok(<< >>)

\* ClipboardExporter.blockToHtml.  Reading block.type of null throws,
\* inside the try and again inside the catch.
ClipboardBlockToHtml(block, settings) ==
    IF block = JsNull THEN Raise
    ELSE IF ClipboardSwitch(block, settings).ok
    THEN ClipboardSwitch(block, settings)
    ELSE Ok(<<"<p style=\"color: #999; font-style: italic;\">",
              ErrorText(block), "</p>">>)

RECURSIVE ClipboardBlockToHtmlLog(_, _)
\* What a loop over blocks that calls ClipboardExporter.blockToHtml logs
\* with console.error; the loop ends at a block that is null.
RECURSIVE ClipboardContentToHtmlLog(_, _)
ClipboardContentToHtmlLog(blocks, settings) ==
    IF blocks = << >> THEN << >>
    ELSE ClipboardBlockToHtmlLog(Head(blocks), settings)
         \o (IF Head(blocks) = JsNull THEN << >>
             ELSE ClipboardContentToHtmlLog(Tail(blocks), settings))

\* What ClipboardExporter.blockToHtml logs with console.error, the blocks
\* of a blockquote first.
ClipboardBlockToHtmlLog(block, settings) ==
    IF block = JsNull THEN <<"Error converting block to HTML:">>
    ELSE (IF block.type = "blockquote" /\ IsIterable(Get(block, "content"))
          THEN ClipboardContentToHtmlLog(block.content, settings)
          ELSE << >>)
         \o (IF ClipboardSwitch(block, settings).ok THEN << >>
             ELSE <<"Error converting block to HTML:", "Block type:">>)

\* ClipboardExporter.contentToHtml.
ClipboardContentToHtml(content, settings) ==
    LET body == Collect([i \in DOMAIN content.blocks |->
                            ClipboardBlockToHtml(content.blocks[i], settings)])
    IN  IF ~body.ok THEN Raise
        ELSE Ok(<<"<!DOCTYPE html><html><head><meta charset=\"utf-8\"></head><body>">>
                \o body.val \o <<"</body></html>">>)

(***************************************************************************)
(* HtmlExporter.                                                           *)
(***************************************************************************)
\* HtmlExporter.inlineContentToHtml.
RECURSIVE HtmlInlineContentToHtml(_, _)
HtmlInlineContentToHtml(item, settings) ==
    LET Nested(content) ==
            IF ~IsIterable(content) THEN Raise
            ELSE Collect([i \in DOMAIN content.val |->
                     HtmlInlineContentToHtml(content.val[i], settings)])
        Wrapped(open, content, close) ==
            IF ~Nested(content).ok THEN Raise
            ELSE Ok(<<open>> \o Nested(content).val \o <<close>>)
    IN  CASE item.type = "text" -> Ok(Piece(EscapeHtml(item.content)))
          [] item.type = "bold" ->
               Wrapped("<strong>", Get(item, "content"), "</strong>")
          [] item.type = "italic" ->
               Wrapped("<em>", Get(item, "content"), "</em>")
          [] item.type = "strikethrough" ->
               Wrapped("<del>", Get(item, "content"), "</del>")
          [] item.type = "code" ->
               Ok(<<"<code>">> \o Piece(EscapeHtml(item.content))
                  \o <<"</code>">>)
          [] item.type = "link" ->
               IF ~Nested(Get(item, "text")).ok THEN Raise
               ELSE Ok(<<"<a href=\"", EscapeHtml(item.url), "\">">>
                       \o Nested(Get(item, "text")).val \o <<"</a>">>)
          [] OTHER -> Ok(<< >>)

\* HtmlExporter.inlineToHtml.
HtmlInlineToHtml(content, settings) ==
    IF ~IsIterable(content) THEN Raise
    ELSE Collect([i \in DOMAIN content.val |->
                     HtmlInlineContentToHtml(content.val[i], settings)])

\* HtmlExporter.headingToHtml.
HtmlHeadingToHtml(block, settings) ==
    LET content == HtmlInlineToHtml(Get(block, "content"), settings)
    IN  IF ~content.ok THEN Raise
        ELSE Ok(<<"<h" \o ToString(block.level) \o ">">> \o content.val
                \o <<"</h" \o ToString(block.level) \o ">\n">>)

\* HtmlExporter.paragraphToHtml.
HtmlParagraphToHtml(block, settings) ==
    LET content == HtmlInlineToHtml(Get(block, "content"), settings)
    IN  IF ~content.ok THEN Raise
        ELSE Ok(<<"<p>">> \o content.val \o <<"</p>\n">>)

\* HtmlExporter.codeBlockToHtml; the lines of block.content are escaped
\* one by one.
HtmlCodeBlockToHtml(block, settings) ==
    LET lines == Get(block, "content")
        label == IF settings.includeLanguageLabel /\ block.language # ""
                 THEN <<"<div class=\"code-language-label\">",
                        EscapeHtml(block.language), "</div>\n">>
                 ELSE << >>
    IN  IF ~IsIterable(lines) THEN Raise
        ELSE Ok(label \o <<"<pre><code>">>
                \o [i \in DOMAIN lines.val |-> EscapeHtml(lines.val[i])]
                \o <<"</code></pre>\n">>)

\* HtmlExporter.mermaidToHtml.
HtmlMermaidToHtml(block, settings) ==
    <<"<p class=\"mermaid-link\"><a href=\"", EscapeHtml(block.url), "\">",
      EscapeHtml(MermaidLinkText(block, settings)), "</a></p>\n">>

\* HtmlExporter.listToHtml.
RECURSIVE HtmlListToHtml(_, _)
HtmlListToHtml(block, settings) ==
    LET tag == IF block.ordered THEN "ol" ELSE "ul"
        Item(item) ==
            LET content == HtmlInlineToHtml(Get(item, "content"), settings)
                nested == IF Has(item, "children")
                          THEN HtmlListToHtml(item.children, settings)
                          ELSE Ok(<< >>)
            IN  IF ~content.ok \/ ~nested.ok THEN Raise
                ELSE Ok(<<"<li>">> \o content.val
                        \o (IF Has(item, "children")
                            THEN <<"\n">> \o nested.val ELSE << >>)
                        \o <<"</li>\n">>)
        items == Collect([i \in DOMAIN block.items |-> Item(block.items[i])])
    IN  IF ~IsIterable(Get(block, "items")) THEN Raise
        ELSE IF ~items.ok THEN Raise
        ELSE Ok(<<"<" \o tag \o ">\n">> \o items.val
                \o <<"</" \o tag \o ">\n">>)

\* The cells of one row of an HTML table, each between open and close.
HtmlCells(cells, settings, open, close) ==
    IF ~IsIterable(cells) THEN Raise
    ELSE LET Cell(cell) ==
                 LET content == HtmlInlineToHtml(cell, settings)
                 IN  IF ~content.ok THEN Raise
                     ELSE Ok(<<open>> \o content.val \o <<close>>)
         IN  Collect([i \in DOMAIN cells.val |->
                         Cell(Defined(cells.val[i]))])

\* HtmlExporter.tableToHtml.
HtmlTableToHtml(block, settings) ==
    LET headers == HtmlCells(Get(block, "headers"), settings,
                             "<th>", "</th>\n")
        rows == Get(block, "rows")
        Row(row) ==
            LET cells == HtmlCells(row, settings, "<td>", "</td>\n")
            IN  IF ~cells.ok THEN Raise
                ELSE Ok(<<"<tr>\n">> \o cells.val \o <<"</tr>\n">>)
        body == Collect([i \in DOMAIN rows.val |->
                            Row(Defined(rows.val[i]))])
    IN  IF ~headers.ok \/ ~IsIterable(rows) THEN Raise
        ELSE IF ~body.ok THEN Raise
        ELSE Ok(<<"<table>\n", "<thead>\n<tr>\n">> \o headers.val
                \o <<"</tr>\n</thead>\n", "<tbody>\n">> \o body.val
                \o <<"</tbody>\n", "</table>\n">>)

\* HtmlExporter.imageToHtml.
HtmlImageToHtml(block, settings) ==
    CASE settings.imageHandling = "embed" ->
           <<"<img src=\"", EscapeHtml(block.url), "\" alt=\"">>
           \o Piece(EscapeHtml(block.alt)) \o <<"\">\n">>
      [] settings.imageHandling = "link" ->
           <<"<p><a href=\"", EscapeHtml(block.url), "\">",
             EscapeHtml(IF block.alt = "" THEN "Image" ELSE block.alt),
             "</a></p>\n">>
      [] settings.imageHandling = "skip" -> << >>
      [] OTHER -> << >>

RECURSIVE HtmlBlockToHtml(_, _)
RECURSIVE HtmlSwitch(_, _)
\* HtmlExporter.blockquoteToHtml.
HtmlBlockquoteToHtml(block, settings) ==
    LET content == Get(block, "content")
        quoted == Collect([i \in DOMAIN content.val |->
                              HtmlBlockToHtml(content.val[i], settings)])
    IN  IF ~IsIterable(content) THEN Raise
        ELSE IF ~quoted.ok THEN Raise
        ELSE Ok(<<"<blockquote>\n">> \o quoted.val \o <<"</blockquote>\n">>)

\* The switch statement of HtmlExporter.blockToHtml.
HtmlSwitch(block, settings) ==
    CASE block.type = "heading" -> HtmlHeadingToHtml(block, settings)
      [] block.type = "paragraph" -> HtmlParagraphToHtml(block, settings)
      [] block.type = "code" -> HtmlCodeBlockToHtml(block, settings)
      [] block.type = "mermaid" -> Ok(HtmlMermaidToHtml(block, settings))
      [] block.type = "list" -> HtmlListToHtml(block, settings)
      [] block.type = "table" -> HtmlTableToHtml(block, settings)
      [] block.type = "blockquote" -> HtmlBlockquoteToHtml(block, settings)
      [] block.type = "hr" -> Ok(<<"<hr>\n">>)
      [] block.type = "image" -> Ok(HtmlImageToHtml(block, settings))
      [] OTHER -> Ok(<< >>)

\* HtmlExporter.blockToHtml.  Reading block.type of null throws, inside
\* the try and again inside the catch.
HtmlBlockToHtml(block, settings) ==
    IF block = JsNull THEN Raise
    ELSE IF HtmlSwitch(block, settings).ok THEN HtmlSwitch(block, settings)
    ELSE Ok(<<"<p style=\"color: #999; font-style: italic;\">",
              ErrorText(block), "</p>\n">>)

\* The head of the document HtmlExporter.contentToHtml writes, with the
\* style sheet of getEmbeddedStyles.
HtmlHead(settings) ==
    <<"<!DOCTYPE html>\n", "<html lang=\"en\">\n", "<head>\n",
      "  <meta charset=\"utf-8\">\n",
      "  <meta name=\"viewport\" content=\"width=device-width, initial-scale=1.0\">\n",
      "  <title>Exported Document</title>\n", "  <style>\n",
      "code { font-family: " \o settings.codeBlockFont \o " } pre { background-color: "
          \o settings.codeBlockBackground \o " }",
      "  </style>\n", "</head>\n", "<body>\n">>

\* HtmlExporter.contentToHtml.
HtmlContentToHtml(content, settings) ==
    LET body == Collect([i \in DOMAIN content.blocks |->
                            HtmlBlockToHtml(content.blocks[i], settings)])
    IN  IF ~body.ok THEN Raise
        ELSE Ok(HtmlHead(settings) \o body.val \o <<"</body>\n", "</html>">>)

(***************************************************************************)
(* The trees the renderers are given, and the calls.                       *)
(***************************************************************************)
\* The most blocks in a row, at top level or inside a blockquote.
MaxBlocks == 2
\* The most formatting nodes around one text.
MaxFormatDepth == 3
\* The most cells of a table row, and the most data rows of a table.
MaxCols == 2
MaxRows == 2

\* The values of settings.imageHandling.
ImageHandlings == {"embed", "link", "skip"}

TextNode(text) == [type |-> "text", content |-> text]
CodeNode(text) == [type |-> "code", content |-> text]
FormatNode(type, content) == [type |-> type, content |-> content]
LinkNode(text, url) == [type |-> "link", text |-> text, url |-> url]
ParagraphNode(content) == [type |-> "paragraph", content |-> content]
HeadingNode(level, content) ==
    [type |-> "heading", level |-> level, content |-> content]
BlockquoteNode(content) == [type |-> "blockquote", content |-> content]
ImageNode(alt, url) == [type |-> "image", alt |-> alt, url |-> url]
TableNode(headers, rows) ==
    [type |-> "table", headers |-> headers, rows |-> rows]

\* A paragraph of plain text.
PlainParagraph == ParagraphNode(<<TextNode("x")>>)

\* Images, with and without alternative text.
ImageNodes ==
    {ImageNode("My Image", "https://example.com/img.png"),
     ImageNode("", "https://example.com/img.png?w=1&h=2")}

\* Nodes that are not what types.ts declares: a paragraph without content,
\* a block of a type no renderer knows, and null.
MalformedParagraph == [type |-> "paragraph"]
UnknownNode == [type |-> "footnote"]
FaultyNodes == {MalformedParagraph, UnknownNode, JsNull}

\* The formatting nodes, and a text with some of them around it, outermost
\* first.  A link holds no other link.
FormatTypes == {"bold", "italic", "strikethrough", "link"}
RECURSIVE Formatted(_, _)
Formatted(types, leaf) ==
    IF types = << >> THEN leaf
    ELSE IF Head(types) = "link"
    THEN LinkNode(<<Formatted(Tail(types), leaf)>>, "https://example.com")
    ELSE FormatNode(Head(types), <<Formatted(Tail(types), leaf)>>)
InlineNodes ==
    {Formatted(types, leaf) :
        types \in {<< >>} \cup
            {t \in SeqUpTo(FormatTypes, MaxFormatDepth) :
                Cardinality({i \in DOMAIN t : t[i] = "link"}) <= 1},
        leaf \in {TextNode("a&b"), CodeNode("x")}}

\* The tables: any number of header cells, rows of any number of cells.
CellOf(text) == <<TextNode(text)>>
TableRows == {[i \in 1..n |-> CellOf("x")] : n \in 1..MaxCols}
TableNodes ==
    {TableNode(headers, rows) :
        headers \in TableRows,
        rows \in {<< >>} \cup SeqUpTo(TableRows, MaxRows)}

\* A code block, a diagram link, a rule and a nested list.
OtherNodes ==
    {[type |-> "code", language |-> "js", content |-> <<"a&b", "">>],
     [type |-> "code", language |-> "", content |-> <<"x">>],
     [type |-> "mermaid", diagramType |-> "Flowchart", code |-> "graph TD",
      url |-> "https://mermaid.live/edit#pako:abc"],
     [type |-> "hr"],
     [type |-> "list", ordered |-> FALSE,
      items |-> <<[content |-> <<TextNode("x")>>,
                   children |-> [type |-> "list", ordered |-> TRUE,
                                 items |-> <<[content |-> <<TextNode("x")>>]>>]],
                  [content |-> <<TextNode("a&b")>>]>>]}

\* A list nested to a depth: one item at each level, the item of the last
\* level without children.
MaxNesting == 5
RECURSIVE ListOfDepth(_, _)
ListOfDepth(depth, ordered) ==
    [type |-> "list", ordered |-> ordered,
     items |-> <<IF depth <= 1 THEN [content |-> <<TextNode("x")>>]
                 ELSE [content |-> <<TextNode("x")>>,
                       children |-> ListOfDepth(depth - 1, ordered)]>>]
NestedLists ==
    {ListOfDepth(depth, ordered) :
        depth \in 1..MaxNesting, ordered \in BOOLEAN}

\* A string with every character escapeHtml replaces: it reads as a tag
\* with a double-quoted and a single-quoted attribute, then an ampersand.
Markup == "<b a=\"1\" c='2'>&"

\* One tree for each place of the tree that holds a string, with the
\* string s there: plain text, inline code, the address of a link, the
\* label and the content of a code block, the text and the address of an
\* image, the type and the address of a diagram link, the text of a
\* heading, of a list item and of a table cell.
StringTrees(s) ==
    <<<<ParagraphNode(<<TextNode(s)>>)>>,
      <<ParagraphNode(<<CodeNode(s)>>)>>,
      <<ParagraphNode(<<LinkNode(<<TextNode(s)>>, s)>>)>>,
      <<[type |-> "code", language |-> s, content |-> <<s>>]>>,
      <<ImageNode(s, s)>>,
      <<[type |-> "mermaid", diagramType |-> s, code |-> "graph TD",
         url |-> s]>>,
      <<HeadingNode(1, <<FormatNode("bold", <<TextNode(s)>>)>>)>>,
      <<[type |-> "list", ordered |-> TRUE,
         items |-> <<[content |-> <<TextNode(s)>>]>>]>>,
      <<TableNode(<<CellOf(s)>>, <<<<CellOf(s)>>>>)>>,
      <<BlockquoteNode(<<ParagraphNode(<<TextNode(s)>>)>>)>>>>

\* A row of blocks at top level, inside a blockquote, and inside a
\* blockquote that follows a paragraph.
Placed(blocks) ==
    {blocks, <<BlockquoteNode(blocks)>>,
     <<PlainParagraph, BlockquoteNode(blocks)>>}

\* The trees: rows of images and paragraphs, rows with faulty nodes, one
\* table, one block with formatted text, one block of each other type,
\* the trees with a string of markup, and the nested lists.
RenderTrees ==
    UNION {Placed(blocks) :
              blocks \in SeqUpTo(ImageNodes \cup {PlainParagraph}, MaxBlocks)
                  \cup SeqUpTo(FaultyNodes \cup {PlainParagraph}, MaxBlocks)
                  \cup {<<table>> : table \in TableNodes}
                  \cup {<<node>> : node \in OtherNodes}}
    \cup {<<ParagraphNode(<<inline>>)>> : inline \in InlineNodes}
    \cup {<<HeadingNode(2, <<inline, TextNode("x")>>)>> :
             inline \in InlineNodes}
    \cup {StringTrees(Markup)[i] : i \in DOMAIN StringTrees(Markup)}
    \cup {<<list>> : list \in NestedLists}
    \cup {<< >>}

\* The state once a renderer has returned.
Rendered(renderer, blocks, imageHandling, done, log) ==
    /\ phase' = "returned"
    /\ op' = renderer
    /\ input' = [content |-> [blocks |-> blocks],
                 settings |-> Settings(imageHandling)]
    /\ env' = "none"
    /\ output' = done
    /\ console' = log
    /\ UNCHANGED <<mermaidBlocks, mermaidCounter, modal, calls>>

\* DocxExporter.createDocument(content, settings).
RenderDocx ==
    /\ phase = "ready"
    /\ \E blocks \in RenderTrees, imageHandling \in ImageHandlings :
          Rendered("docx", blocks, imageHandling,
                   CreateDocument([blocks |-> blocks],
                                  Settings(imageHandling)),
                   CreateDocumentLog(blocks, Settings(imageHandling)))

\* ClipboardExporter.contentToHtml(content, settings).
RenderClipboard ==
    /\ phase = "ready"
    /\ \E blocks \in RenderTrees, imageHandling \in ImageHandlings :
          Rendered("clipboard", blocks, imageHandling,
                   ClipboardContentToHtml([blocks |-> blocks],
                                          Settings(imageHandling)),
                   ClipboardContentToHtmlLog(blocks,
                                             Settings(imageHandling)))

\* HtmlExporter.contentToHtml(content, settings), which logs nothing.
RenderHtml ==
    /\ phase = "ready"
    /\ \E blocks \in RenderTrees, imageHandling \in ImageHandlings :
          Rendered("html", blocks, imageHandling,
                   HtmlContentToHtml([blocks |-> blocks],
                                     Settings(imageHandling)),
                   << >>)

RenderNext == RenderDocx \/ RenderClipboard \/ RenderHtml \/ Discard

RenderSpec == Init /\ [][RenderNext]_vars

(***************************************************************************)
(* C16.  Skipped images.                                                   *)
(***************************************************************************)
\* A renderer has returned.
RenderReturned == phase = "returned" /\ op \in {"docx", "clipboard", "html"}

\* What the renderer returns for a tree.
RenderOf(renderer, blocks, settings) ==
    CASE renderer = "docx" -> CreateDocument([blocks |-> blocks], settings)
      [] renderer = "clipboard" ->
           ClipboardContentToHtml([blocks |-> blocks], settings)
      [] renderer = "html" -> HtmlContentToHtml([blocks |-> blocks], settings)

\* What the dispatcher of the renderer returns for one block.
BlockOf(renderer, block, settings) ==
    CASE renderer = "docx" -> BlockToDocx(block, settings)
      [] renderer = "clipboard" -> ClipboardBlockToHtml(block, settings)
      [] renderer = "html" -> HtmlBlockToHtml(block, settings)

\* The block is an object of the given type.
IsBlock(block, type) == block # JsNull /\ block.type = type

\* The tree without its Image blocks, at top level and inside blockquotes.
RECURSIVE WithoutImages(_)
WithoutImages(blocks) ==
    IF blocks = << >> THEN << >>
    ELSE LET block == Head(blocks)
         IN  (IF IsBlock(block, "image") THEN << >>
              ELSE IF IsBlock(block, "blockquote") /\ Has(block, "content")
              THEN <<BlockquoteNode(WithoutImages(block.content))>>
              ELSE <<block>>)
             \o WithoutImages(Tail(blocks))

\* The Image blocks of the tree.
RECURSIVE ImagesOf(_)
ImagesOf(blocks) ==
    IF blocks = << >> THEN {}
    ELSE LET block == Head(blocks)
         IN  (IF IsBlock(block, "image") THEN {block}
              ELSE IF IsBlock(block, "blockquote") /\ Has(block, "content")
              THEN ImagesOf(block.content)
              ELSE {})
             \cup ImagesOf(Tail(blocks))

\* C16: with imageHandling = skip an Image block contributes nothing, in
\* every renderer, at top level and inside a blockquote: the dispatcher
\* returns no fragment for it, and the rendering of the tree is the
\* rendering of the tree without its Image blocks.
C16_SkippedImageNoFragment ==
    (RenderReturned /\ input.settings.imageHandling = "skip") =>
        /\ \A image \in ImagesOf(input.content.blocks) :
              BlockOf(op, image, input.settings) = Ok(<< >>)
        /\ output = RenderOf(op, WithoutImages(input.content.blocks),
                             input.settings)

\* The DOCX renderer returned for an image inside a blockquote, skipped.
C16_Witness ==
    /\ RenderReturned
    /\ op = "docx"
    /\ input.settings.imageHandling = "skip"
    /\ input.content.blocks
       = <<PlainParagraph,
           BlockquoteNode(<<ImageNode("My Image",
                                      "https://example.com/img.png"),
                            PlainParagraph>>)>>
    /\ output.ok
    /\ Len(output.val.children) = 2

(***************************************************************************)
(* C17.  Embedded images.                                                  *)
(***************************************************************************)
\* The addresses a DOCX paragraph refers to: the links of its hyperlinks
\* and the texts of its runs.
DocxReferences(paragraph) ==
    {paragraph.children[i].link :
        i \in {j \in DOMAIN paragraph.children :
                  paragraph.children[j].class = "ExternalHyperlink"}}
    \cup {paragraph.children[i].text :
             i \in {j \in DOMAIN paragraph.children :
                       paragraph.children[j].class = "TextRun"}}

\* What the dispatcher returned is one fragment that refers to the
\* address: one DOCX paragraph, or one HTML img element and nothing else.
OneFragmentFor(renderer, fragments, url) ==
    IF renderer = "docx"
    THEN /\ Len(fragments) = 1
         /\ url \in DocxReferences(fragments[1])
    ELSE /\ Len(fragments) >= 3
         /\ fragments[1] = "<img src=\""
         /\ fragments[2] = EscapeHtml(url)
         /\ \A i \in 2..Len(fragments) : fragments[i] # "<img src=\""
         /\ fragments[Len(fragments)] \in {"\">", "\">\n"}

\* C17: with imageHandling = embed, every renderer returns for an Image
\* block exactly one fragment, and the fragment refers to the address of
\* the image.
C17_EmbeddedImageOneFragment ==
    (RenderReturned /\ input.settings.imageHandling = "embed") =>
        \A i \in DOMAIN input.content.blocks :
            IsBlock(input.content.blocks[i], "image") =>
                LET done == BlockOf(op, input.content.blocks[i],
                                    input.settings)
                IN  /\ done.ok
                    /\ OneFragmentFor(op, done.val,
                                      input.content.blocks[i].url)

(***************************************************************************)
(* C18.  A block that fails to render.                                     *)
(***************************************************************************)
\* The fragments of the blocks in what a renderer returned: the children
\* of the DOCX document, the HTML text between the head and the tail.
BodyOf(renderer, settings, document) ==
    CASE renderer = "docx" -> document.children
      [] renderer = "clipboard" -> SubSeq(document, 2, Len(document) - 1)
      [] renderer = "html" ->
           SubSeq(document, Len(HtmlHead(settings)) + 1, Len(document) - 2)

\* What the switch statement of the dispatcher comes to for a block.
SwitchOf(renderer, block, settings) ==
    CASE renderer = "docx" -> DocxSwitch(block, settings)
      [] renderer = "clipboard" -> ClipboardSwitch(block, settings)
      [] renderer = "html" -> HtmlSwitch(block, settings)

\* The marked fragment that stands for a block that failed.
ErrorFragment(renderer, block) ==
    CASE renderer = "docx" ->
           <<NewParagraph(
               <<NewTextRun(ErrorText(block), {"italics"}, "999999")>>,
               "plain")>>
      [] renderer = "clipboard" ->
           <<"<p style=\"color: #999; font-style: italic;\">",
             ErrorText(block), "</p>">>
      [] renderer = "html" ->
           <<"<p style=\"color: #999; font-style: italic;\">",
             ErrorText(block), "</p>\n">>

\* Rendering the block raises.
RenderingRaises(renderer, block, settings) ==
    block = JsNull \/ ~SwitchOf(renderer, block, settings).ok

\* The returned call was given a tree with a block that raises and a
\* paragraph of plain text.
OneBlockRaised ==
    /\ RenderReturned
    /\ PlainParagraph \in Range(input.content.blocks)
    /\ \E i \in DOMAIN input.content.blocks :
          RenderingRaises(op, input.content.blocks[i], input.settings)

\* C18: in every backend a block whose rendering raises is replaced by
\* the marked fragment "[Error rendering <kind> block]" and every other
\* block is rendered as it is without the failure: the renderer returns.
C18_FailedBlockReplaced ==
    OneBlockRaised =>
        /\ output.ok
        /\ BodyOf(op, input.settings, output.val)
           = Spread([i \in DOMAIN input.content.blocks |->
                 IF RenderingRaises(op, input.content.blocks[i],
                                    input.settings)
                 THEN ErrorFragment(op, input.content.blocks[i])
                 ELSE SwitchOf(op, input.content.blocks[i],
                               input.settings).val])

(***************************************************************************)
(* C19.  Nested inline formatting.                                         *)
(***************************************************************************)
\* The returned call was given one paragraph or heading that holds a text
\* inside formatting nodes.
FormattedTextRendered ==
    /\ RenderReturned
    /\ Len(input.content.blocks) = 1
    /\ \/ IsBlock(input.content.blocks[1], "paragraph")
       \/ IsBlock(input.content.blocks[1], "heading")
    /\ Has(input.content.blocks[1], "content")
    /\ input.content.blocks[1].content[1] \in InlineNodes

\* The types of the nodes around the text of an inline node, outermost
\* first, and the text or inline code they hold.
RECURSIVE PathOf(_)
PathOf(node) ==
    IF node.type \in {"text", "code"} THEN << >>
    ELSE <<node.type>>
         \o PathOf(IF node.type = "link" THEN node.text[1]
                   ELSE node.content[1])
RECURSIVE LeafOf(_)
LeafOf(node) ==
    IF node.type \in {"text", "code"} THEN node
    ELSE LeafOf(IF node.type = "link" THEN node.text[1] ELSE node.content[1])

\* The formats of the nodes on a path.
FormatsOf(path) == Range(path) \ {"link"}

\* The flag of a DOCX run, and the HTML tags, of a format.
DocxFlag(format) ==
    CASE format = "bold" -> "bold"
      [] format = "italic" -> "italics"
      [] format = "strikethrough" -> "strike"
OpenTag(format) ==
    CASE format = "bold" -> "<strong>"
      [] format = "italic" -> "<em>"
      [] format = "strikethrough" -> "<del>"
CloseTag(format) ==
    CASE format = "bold" -> "</strong>"
      [] format = "italic" -> "</em>"
      [] format = "strikethrough" -> "</del>"

\* The text runs of a DOCX paragraph, those of its hyperlinks included.
RECURSIVE RunsOf(_)
RunsOf(children) ==
    IF children = << >> THEN << >>
    ELSE (IF Head(children).class = "ExternalHyperlink"
          THEN RunsOf(Head(children).children)
          ELSE <<Head(children)>>)
         \o RunsOf(Tail(children))

\* The formats whose element is open at a place of an HTML text.
OpenAt(html, place) ==
    {format \in {"bold", "italic", "strikethrough"} :
        Cardinality({i \in 1..(place - 1) : html[i] = OpenTag(format)})
        > Cardinality({i \in 1..(place - 1) : html[i] = CloseTag(format)})}

\* The place of the first piece of an HTML text that is the given text.
PlaceOf(html, text) == Min({i \in DOMAIN html : html[i] = text})

\* C19: a text inside Bold, Italic and Strikethrough nodes is rendered
\* with the formats of all of them and no other: the DOCX run of the text,
\* inside a hyperlink or of inline code too, carries exactly their flags,
\* in HTML the text lies inside exactly their elements; the plain text that
\* follows the formatted one carries none.
C19_FormatsCompose ==
    FormattedTextRendered =>
        LET block == input.content.blocks[1]
            leaf == LeafOf(block.content[1])
            formats == FormatsOf(PathOf(block.content[1]))
            body == BodyOf(op, input.settings, output.val)
        IN  /\ output.ok
            /\ IF op = "docx"
               THEN LET runs == RunsOf(body[1].children)
                    IN  /\ Len(runs) = Len(block.content)
                        /\ runs[1].text = leaf.content
                        /\ runs[1].formatting
                           = {DocxFlag(format) : format \in formats}
                        /\ \A i \in 2..Len(runs) : runs[i].formatting = {}
               ELSE LET text == EscapeHtml(leaf.content)
                    IN  /\ text \in Range(body)
                        /\ OpenAt(body, PlaceOf(body, text)) = formats
                        /\ OpenAt(body, Len(body)) = {}

\* The DOCX renderer returned for inline code inside an italic node inside
\* a link inside a bold node.
C19_Witness ==
    /\ FormattedTextRendered
    /\ op = "docx"
    /\ input.content.blocks[1].content
       = <<Formatted(<<"bold", "link", "italic">>, CodeNode("x"))>>
    /\ output.ok
    /\ RunsOf(output.val.children[1].children)[1].formatting
       = {"bold", "italics"}

(***************************************************************************)
(* C20.  The cells of a table.                                             *)
(***************************************************************************)
\* A row of n header cells, and a row of n data cells.
HeaderRow(n) == [th |-> n, td |-> 0]
DataRow(n) == [th |-> 0, td |-> n]

\* The rows of the Table blocks of a tree, those inside blockquotes
\* included, each table as the sequence of its rows.
RECURSIVE TablesOf(_)
TablesOf(blocks) ==
    IF blocks = << >> THEN << >>
    ELSE LET block == Head(blocks)
         IN  (IF IsBlock(block, "table")
              THEN <<<<HeaderRow(Len(block.headers))>>
                     \o [i \in DOMAIN block.rows |->
                            DataRow(Len(block.rows[i]))]>>
              ELSE IF IsBlock(block, "blockquote") /\ Has(block, "content")
              THEN TablesOf(block.content)
              ELSE << >>)
             \o TablesOf(Tail(blocks))

\* The number of cells of a DOCX table row with the given shading.
CellsShaded(row, shading) ==
    Cardinality({i \in DOMAIN row.children :
                    row.children[i].shading = shading})

\* The rows of the tables among the children of a DOCX document.
DocxTables(children) ==
    LET tables == SelectSeq(children, LAMBDA child : child.class = "Table")
    IN  [t \in DOMAIN tables |->
            [r \in DOMAIN tables[t].rows |->
                [th |-> CellsShaded(tables[t].rows[r], "D3D3D3"),
                 td |-> CellsShaded(tables[t].rows[r], "none")]]]

\* The pieces that open a table, a row, a header cell and a data cell.
TableOpens ==
    {"<table>\n",
     "<table border=\"1\" style=\"border-collapse: collapse; width: 100%;\">"}
RowOpens == {"<thead><tr>", "<tr>", "<thead>\n<tr>\n", "<tr>\n"}
ThOpens == {"<th>", "<th style=\"background-color: #d3d3d3; padding: 8px;\">"}
TdOpens == {"<td>", "<td style=\"padding: 8px;\">"}

\* The rows of the tables of an HTML text, read piece by piece.
RECURSIVE HtmlTables(_, _)
HtmlTables(html, tables) ==
    IF html = << >> THEN tables
    ELSE LET piece == Head(html)
             t == Len(tables)
             r == Len(tables[t])
         IN  HtmlTables(Tail(html),
                 IF piece \in TableOpens THEN Append(tables, << >>)
                 ELSE IF piece \in RowOpens
                 THEN [tables EXCEPT ![t] = Append(@, [th |-> 0, td |-> 0])]
                 ELSE IF piece \in ThOpens
                 THEN [tables EXCEPT ![t][r].th = @ + 1]
                 ELSE IF piece \in TdOpens
                 THEN [tables EXCEPT ![t][r].td = @ + 1]
                 ELSE tables)

\* The returned call was given a tree with a table.
TableRendered ==
    /\ RenderReturned
    /\ TablesOf(input.content.blocks) # << >>

\* C20: for every Table block each backend emits one row of exactly
\* headers.length header cells and, for each data row, one row of exactly
\* as many data cells as the row holds, in order.
C20_TableCellsKept ==
    TableRendered =>
        /\ output.ok
        /\ TablesOf(input.content.blocks)
           = IF op = "docx"
             THEN DocxTables(BodyOf(op, input.settings, output.val))
             ELSE HtmlTables(BodyOf(op, input.settings, output.val), << >>)

(***************************************************************************)
(* C21.  HTML escaping.                                                    *)
(***************************************************************************)
\* The entities escapeHtml writes.
Entities == {"&amp;", "&lt;", "&gt;", "&quot;", "&#039;"}

\* An entity begins at place i of the text.
EntityAt(html, i) ==
    \E entity \in Entities :
        /\ i + Len(entity) - 1 <= Len(html)
        /\ SubSeq(html, i, i + Len(entity) - 1) = entity

\* How a reader of HTML goes on after the character at a place: from text
\* into a tag at <, from a tag into an attribute value at a double quote
\* or back to text at >, from an attribute value back to the tag at the
\* next double quote.
ReadMode(mode, char) ==
    CASE mode = "text" /\ char = "<" -> "tag"
      [] mode = "tag" /\ char = ">" -> "text"
      [] mode = "tag" /\ char = "\"" -> "value"
      [] mode = "value" /\ char = "\"" -> "tag"
      [] OTHER -> mode

\* The pieces i to j of an HTML text as one string.
RECURSIVE Joined(_, _, _)
Joined(pieces, i, j) ==
    IF i > j THEN ""
    ELSE IF i = j THEN pieces[i]
    ELSE Joined(pieces, i, (i + j) \div 2)
         \o Joined(pieces, (i + j) \div 2 + 1, j)

\* How the reader goes on after the characters i to j of an HTML text.
RECURSIVE ModeAfter(_, _, _, _)
ModeAfter(html, i, j, mode) ==
    IF i > j THEN mode
    ELSE ModeAfter(html, i + 1, j, ReadMode(mode, SubSeq(html, i, i)))

\* The markup a reader of HTML finds in the characters i to j: the tags
\* with their attribute names and the quotes around the attribute values,
\* without the text between the tags and without the attribute values.
RECURSIVE MarkupOf(_, _, _, _)
MarkupOf(html, i, j, mode) ==
    IF i > j THEN ""
    ELSE LET char == SubSeq(html, i, i)
             next == ReadMode(mode, char)
         IN  (IF mode = "tag" \/ next = "tag" THEN char ELSE "")
             \o MarkupOf(html, i + 1, j, next)

\* In the characters i to j, the text between the tags and the attribute
\* values hold none of the characters < > " ' and no & that does not
\* begin an entity.
RECURSIVE NothingRaw(_, _, _, _)
NothingRaw(html, i, j, mode) ==
    IF i > j THEN TRUE
    ELSE LET char == SubSeq(html, i, i)
             next == ReadMode(mode, char)
         IN  /\ (mode # "tag" /\ next = mode) =>
                    /\ char \notin {"<", ">", "\"", "'"}
                    /\ char = "&" => EntityAt(html, i)
             /\ NothingRaw(html, i + 1, j, next)

\* The text is read a stretch of characters at a time; a stretch that
\* begins at place i ends at StretchEnd(html, i).
StretchLen == 16
StretchEnd(html, i) ==
    IF i + StretchLen - 1 < Len(html) THEN i + StretchLen - 1 ELSE Len(html)

\* The markup of an HTML text from place i on.
RECURSIVE MarkupFrom(_, _, _)
MarkupFrom(html, i, mode) ==
    IF i > Len(html) THEN ""
    ELSE MarkupOf(html, i, StretchEnd(html, i), mode)
         \o MarkupFrom(html, StretchEnd(html, i) + 1,
                       ModeAfter(html, i, StretchEnd(html, i), mode))

\* Nothing is raw in an HTML text from place i on.
RECURSIVE NothingRawFrom(_, _, _)
NothingRawFrom(html, i, mode) ==
    IF i > Len(html) THEN TRUE
    ELSE /\ NothingRaw(html, i, StretchEnd(html, i), mode)
         /\ NothingRawFrom(html, StretchEnd(html, i) + 1,
                           ModeAfter(html, i, StretchEnd(html, i), mode))

\* The HTML a backend has written for the blocks of a tree, as one string.
HtmlText(renderer, settings, document) ==
    LET pieces == BodyOf(renderer, settings, document)
    IN  Joined(pieces, 1, Len(pieces))

\* An HTML backend has returned a document.
HtmlReturned ==
    /\ RenderReturned
    /\ op \in {"clipboard", "html"}
    /\ output.ok

\* C21: in both HTML backends every string of the tree is written with
\* & < > " ' replaced by entities: what the backend writes between the
\* tags and inside the attribute values holds none of these characters
\* raw, and a tree with a string of markup at any place that holds a
\* string gives the same tags and attributes as the tree with a plain
\* string there.
C21_TreeStringsEscaped ==
    HtmlReturned =>
        LET html == HtmlText(op, input.settings, output.val)
        IN  /\ NothingRawFrom(html, 1, "text")
            /\ \A i \in DOMAIN StringTrees(Markup) :
                   input.content.blocks = StringTrees(Markup)[i] =>
                       MarkupFrom(html, 1, "text")
                           = MarkupFrom(HtmlText(op, input.settings,
                                 RenderOf(op, StringTrees("x")[i],
                                          input.settings).val), 1, "text")

\* The HTML exporter has written a link whose address and text are the
\* string of markup, with its entities.
C21_Witness ==
    /\ HtmlReturned
    /\ op = "html"
    /\ input.content.blocks
           = <<ParagraphNode(<<LinkNode(<<TextNode(Markup)>>, Markup)>>)>>
    /\ \E i \in DOMAIN output.val :
           /\ output.val[i] = "<a href=\""
           /\ output.val[i + 1]
                  = "&lt;b a=&quot;1&quot; c=&#039;2&#039;&gt;&amp;"
           /\ output.val[i + 3]
                  = "&lt;b a=&quot;1&quot; c=&#039;2&#039;&gt;&amp;"

(***************************************************************************)
(* The export functions of the three exporters.                            *)
(***************************************************************************)
\* new Error(message), and a value that is not an instance of Error.
JsError(message) == [class |-> "Error", message |-> message]
JsValue(value) == [class |-> "String", value |-> value]

\* error instanceof Error.
IsError(error) == error.class = "Error"

\* A call that ended with throw error, or a promise rejected with it.
Throw(error) == [ok |-> FALSE, val |-> error]

\* Nothing fails in the host environment.
NoFailure == [step |-> "none"]

\* The steps of an export function that call into the host environment,
\* after the note has been parsed and rendered.
HostSteps(format) ==
    CASE format = "docx" -> {"Packer.toBlob", "saveAs"}
      [] format = "clipboard" -> {"new ClipboardItem", "clipboard.write"}
      [] format = "html" -> {"new Blob", "saveAs"}
      [] OTHER -> {}

\* What the try block of an export function comes to: the file saved or
\* the clipboard written, unless one of its steps throws.
ExportTry(format, filename, failure) ==
    IF failure.step \in HostSteps(format) THEN Throw(failure.thrown)
    ELSE CASE format = "docx" -> Ok([saved |-> filename \o ".docx"])
           [] format = "clipboard" -> Ok([clipboard |-> "text/html"])
           [] format = "html" -> Ok([saved |-> filename \o ".html"])

\* The words an export function puts in front of the message.
ExportContext(format) ==
    CASE format = "docx" -> "Failed to export DOCX"
      [] format = "clipboard" -> "Failed to copy to clipboard"
      [] format = "html" -> "Failed to export HTML"

\* DocxExporter.export, ClipboardExporter.export and HtmlExporter.export:
\* the catch block throws a new Error with the message of the Error it
\* caught, and with 'Unknown error' for any other value.
Export(format, filename, failure) ==
    LET done == ExportTry(format, filename, failure)
    IN  IF done.ok THEN done
        ELSE IF IsError(done.val)
        THEN Throw(JsError(ExportContext(format) \o ": "
                           \o done.val.message))
        ELSE Throw(JsError(ExportContext(format) \o ": Unknown error"))

\* What the catch block of an export function logs with console.error;
\* HtmlExporter.export logs nothing.
ExportLog(format, filename, failure) ==
    IF ExportTry(format, filename, failure).ok THEN << >>
    ELSE CASE format = "docx" -> <<"DOCX export error:">>
           [] format = "clipboard" -> <<"Clipboard export error:">>
           [] OTHER -> << >>

(***************************************************************************)
(* GoogleDocsExporterPlugin.exportNote.                                    *)
(***************************************************************************)
\* The note of the vault that is exported.
NoteFile == [basename |-> "note", path |-> "note.md"]

\* new Notice(text) with the pictograph of success or of failure in front
\* of the text.
PassNotice(text) == [mark |-> "pass", text |-> text]
FailNotice(text) == [mark |-> "fail", text |-> text]

\* The notice of a successful export.
SuccessNotice(format, file) ==
    CASE format = "docx" ->
           PassNotice("Exported to " \o file.basename \o ".docx")
      [] format = "clipboard" ->
           PassNotice("Copied to clipboard! Paste into Google Docs with Ctrl+V (Cmd+V on Mac)")
      [] format = "html" ->
           PassNotice("Exported to " \o file.basename \o ".html")

\* The export function has not been called.
NotExported == [ok |-> FALSE, val |-> [class |-> "none"]]

\* A call of exportNote up to its first await: without a file it shows a
\* notice and returns, with a file it shows the progress notice and
\* begins to read the file.
ExportNoteBegin(origin, file, format) ==
    IF file = JsNull
    THEN [origin |-> origin, file |-> file, format |-> format,
          pc |-> "returned", progress |-> "none",
          notices |-> <<FailNotice("No file selected. Please open a markdown file first.")>>,
          failure |-> NoFailure, exported |-> NotExported,
          settled |-> "fulfilled"]
    ELSE [origin |-> origin, file |-> file, format |-> format,
          pc |-> "reading", progress |-> "shown", notices |-> << >>,
          failure |-> NoFailure, exported |-> NotExported,
          settled |-> "pending"]

\* The catch block of exportNote without its notice.
ExportNoteCatchSilent(call, error) ==
    [call EXCEPT !.pc = "returned",
                 !.progress = IF @ = "none" THEN "none" ELSE "hidden",
                 !.settled = "fulfilled"]

\* The catch block of exportNote: it hides the progress notice, shows the
\* notice of failure and returns, so that the promise is fulfilled.
ExportNoteCatch(call, error) ==
    [call EXCEPT !.pc = "returned",
                 !.progress = IF @ = "none" THEN "none" ELSE "hidden",
                 !.notices = Append(@, FailNotice("Export failed: " \o
                     (IF IsError(error) THEN error.message
                      ELSE "Unknown error occurred"))),
                 !.settled = "fulfilled"]

\* What the catch block of exportNote logs with console.error.
ExportNoteCatchLog(error) ==
    <<"Export error:", "File:", "Format:">>
    \o (IF IsError(error) THEN <<"Stack trace:">> ELSE << >>)

\* exportNote once this.app.vault.read(file) has settled with read: the
\* switch over the format calls the export function, and throws for a
\* format it does not know.
ExportNoteRead(call, read) ==
    IF ~read.ok THEN ExportNoteCatch(call, read.val)
    ELSE IF call.format \in {"docx", "clipboard", "html"}
    THEN [call EXCEPT !.pc = "exporting"]
    ELSE ExportNoteCatch([call EXCEPT !.progress = "hidden"],
             JsError("Unknown export format: " \o call.format))

\* What exportNote logs once the file has been read.
ExportNoteReadLog(call, read) ==
    IF ~read.ok THEN ExportNoteCatchLog(read.val)
    ELSE IF call.format \in {"docx", "clipboard", "html"} THEN << >>
    ELSE ExportNoteCatchLog(JsError("Unknown export format: "
                                    \o call.format))

\* exportNote once the export function has settled with done.
ExportNoteExported(call, failure, done) ==
    IF done.ok
    THEN [call EXCEPT !.pc = "returned", !.progress = "hidden",
                      !.notices = Append(@, SuccessNotice(call.format,
                                                          call.file)),
                      !.failure = failure, !.exported = done,
                      !.settled = "fulfilled"]
    ELSE ExportNoteCatch([call EXCEPT !.failure = failure,
                                      !.exported = done], done.val)

(***************************************************************************)
(* ExportModal.                                                            *)
(***************************************************************************)
\* new ExportModal(app, file, settings, onExport) followed by open():
\* onOpen creates the Export button.
NewExportModal(defaultFormat) ==
    [constructed |-> TRUE, opened |-> TRUE, isExporting |-> FALSE,
     selectedFormat |-> defaultFormat,
     exportButton |-> [disabled |-> FALSE, text |-> "Export"],
     handled |-> 0, onExportCalls |-> 0, closed |-> 0]

\* Modal.close().
Close(m) == [m EXCEPT !.opened = FALSE, !.closed = @ + 1]

\* handleExport up to its await, without the test of isExporting.
HandleExportUnguarded(m) ==
    [m EXCEPT !.isExporting = TRUE,
              !.exportButton = [disabled |-> TRUE, text |-> "Exporting..."],
              !.handled = @ + 1, !.onExportCalls = @ + 1]

\* ExportModal.handleExport up to its await: it returns at once while an
\* export is running, and otherwise sets isExporting, disables the button
\* and calls onExport.
HandleExport(m) ==
    IF m.isExporting THEN [m EXCEPT !.handled = @ + 1]
    ELSE [m EXCEPT !.isExporting = TRUE,
                   !.exportButton = [disabled |-> TRUE,
                                     text |-> "Exporting..."],
                   !.handled = @ + 1, !.onExportCalls = @ + 1]

\* ExportModal.handleExport after its await: close() when the promise of
\* onExport is fulfilled, nothing when it is rejected, and the finally
\* block in both cases.
HandleExportSettled(m, settled) ==
    [(IF settled = "fulfilled" THEN Close(m) ELSE m) EXCEPT
        !.isExporting = FALSE,
        !.exportButton = [disabled |-> FALSE, text |-> "Export"]]

(***************************************************************************)
(* The plugin at work: one modal, and calls of exportNote from the modal   *)
(* and from elsewhere.                                                     *)
(***************************************************************************)
\* The most calls of exportNote, and the most calls of handleExport.
MaxCalls == 2
MaxHandled == 3

\* The formats of types.ts, and a value of settings.defaultFormat that
\* loadSettings took from the stored data and that is none of them.
Formats == {"docx", "clipboard", "html"}
StoredFormats == Formats \cup {"pdf"}

\* What a step of the host environment throws or rejects with: an Error,
\* and a value that is not an Error.
Throwables ==
    {JsError("Write permission denied"), JsValue("quota exceeded")}

\* What can fail during an export function.
Failures(format) ==
    {NoFailure} \cup
    {[step |-> step, thrown |-> thrown] :
        step \in HostSteps(format), thrown \in Throwables}

\* After the call i of exportNote has taken a step: the call as it is
\* now, what it logged, and handleExport going on after its await when
\* the call was made by the modal and has returned.
ExportNoteStepped(i, call, log) ==
    /\ calls' = [calls EXCEPT ![i] = call]
    /\ console' = console \o log
    /\ modal' = IF call.origin = "modal" /\ call.pc = "returned"
                THEN HandleExportSettled(modal, call.settled)
                ELSE modal
    /\ UNCHANGED <<mermaidBlocks, mermaidCounter, phase, op, input, env,
                   output>>

\* GoogleDocsExporterPlugin.openExportModal(file).
OpenExportModal ==
    /\ ~modal.constructed
    /\ \E defaultFormat \in StoredFormats :
          modal' = NewExportModal(defaultFormat)
    /\ UNCHANGED <<mermaidBlocks, mermaidCounter, phase, op, input, env,
                   output, console, calls>>

\* A click on Export, or any other call of handleExport, while the modal
\* is open: onExport is exportNote.
ClickExport ==
    /\ modal.opened
    /\ modal.handled < MaxHandled
    /\ Len(calls) < MaxCalls
    /\ modal' = HandleExport(modal)
    /\ calls' = IF modal'.onExportCalls > modal.onExportCalls
                THEN Append(calls, ExportNoteBegin("modal", NoteFile,
                                                   modal.selectedFormat))
                ELSE calls
    /\ UNCHANGED <<mermaidBlocks, mermaidCounter, phase, op, input, env,
                   output, console>>

\* A click on Cancel.
ClickCancel ==
    /\ modal.opened
    /\ modal' = Close(modal)
    /\ UNCHANGED <<mermaidBlocks, mermaidCounter, phase, op, input, env,
                   output, console, calls>>

\* exportNote(file, format) called by a command or by other code.
ExportNoteCalled ==
    /\ Len(calls) < MaxCalls
    /\ \E file \in {NoteFile, JsNull}, format \in Formats :
          calls' = Append(calls, ExportNoteBegin("command", file, format))
    /\ UNCHANGED <<mermaidBlocks, mermaidCounter, phase, op, input, env,
                   output, console, modal>>

\* this.app.vault.read(file) settles for a call of exportNote.
VaultReadSettles ==
    \E i \in DOMAIN calls :
        /\ calls[i].pc = "reading"
        /\ \E read \in {Ok("content")} \cup {Throw(e) : e \in Throwables} :
              ExportNoteStepped(i, ExportNoteRead(calls[i], read),
                                ExportNoteReadLog(calls[i], read))

\* The export function settles for a call of exportNote.
ExportSettles ==
    \E i \in DOMAIN calls :
        /\ calls[i].pc = "exporting"
        /\ \E failure \in Failures(calls[i].format) :
              LET done == Export(calls[i].format, calls[i].file.basename,
                                 failure)
              IN  ExportNoteStepped(i,
                      ExportNoteExported(calls[i], failure, done),
                      ExportLog(calls[i].format, calls[i].file.basename,
                                failure)
                      \o (IF done.ok THEN << >>
                          ELSE ExportNoteCatchLog(done.val)))

PluginNext ==
    \/ OpenExportModal
    \/ ClickExport
    \/ ClickCancel
    \/ ExportNoteCalled
    \/ VaultReadSettles
    \/ ExportSettles

PluginSpec == Init /\ [][PluginNext]_vars

(***************************************************************************)
(* C22.  The error of a failed export.                                     *)
(***************************************************************************)
\* The calls of exportNote whose export function has thrown.
FailedExports ==
    {i \in DOMAIN calls :
        /\ calls[i].pc = "returned"
        /\ calls[i].exported # NotExported
        /\ ~calls[i].exported.ok}

\* What a thrown value says: the message of an Error, the text of any
\* other value.
CauseText(thrown) ==
    IF IsError(thrown) THEN thrown.message ELSE thrown.value

\* C22: when an export function fails, the error it throws to its caller
\* is an Error whose message is the context of the exporter followed by
\* what the original failure says, so that the original cause is carried.
C22_FailureWrappedWithCause ==
    \A i \in FailedExports :
        /\ IsError(calls[i].exported.val)
        /\ calls[i].exported.val.message
               = ExportContext(calls[i].format) \o ": "
                 \o CauseText(calls[i].failure.thrown)

(***************************************************************************)
(* C23.  One notification for each export attempt.                         *)
(***************************************************************************)
\* The calls of exportNote that have returned.
ReturnedCalls == {i \in DOMAIN calls : calls[i].pc = "returned"}

\* C23: a call of exportNote that has returned has shown exactly one
\* notice of success or failure, and it is the notice of success if and
\* only if the export function was called and completed without error; a
\* call that has not returned has shown none yet.
C23_OneNotice ==
    \A i \in DOMAIN calls :
        IF i \in ReturnedCalls
        THEN /\ Len(calls[i].notices) = 1
             /\ calls[i].notices[1].mark = "pass" <=> calls[i].exported.ok
             /\ calls[i].notices[1].mark = "fail" <=> ~calls[i].exported.ok
        ELSE calls[i].notices = << >>

\* One call has ended with the notice of success and another one, whose
\* export function failed, with the notice of failure.
C23_Witness ==
    \E i, j \in ReturnedCalls :
        /\ calls[i].format \in Formats
        /\ calls[i].notices = <<SuccessNotice(calls[i].format, NoteFile)>>
        /\ calls[j].format \in Formats
        /\ j \in FailedExports
        /\ calls[j].notices[1].mark = "fail"

(***************************************************************************)
(* One parser instance used for several calls of parse.                    *)
(***************************************************************************)
\* The most lines of a text given to a parser that may have parsed before.
MaxReparseLines == 2

\* The texts such a parser is given.
ReparseInputs ==
    {JsNull, JsUndefined}
    \cup {JsText(ls) : ls \in SeqUpTo(DocLines, MaxReparseLines)}

\* parser.parse(markdown) on a parser that is new or has returned from an
\* earlier parse.
ParseOnInstance ==
    /\ phase \in {"ready", "returned"}
    /\ op \in {"none", "parse"}
    /\ \E markdown \in ReparseInputs, throwsOn \in SUBSET Failable :
       \E faults \in [1..DiagramCount(markdown) -> ParseFaults] :
          ParseReturned(markdown, throwsOn, faults,
                        ParseCall(markdown, mermaidBlocks, mermaidCounter,
                                  throwsOn, faults))

ParserNext == ParseOnInstance \/ Discard

ParserSpec == Init /\ [][ParserNext]_vars

(***************************************************************************)
(* C24.  Placeholder bookkeeping of successive parses.                     *)
(***************************************************************************)
\* parse has returned.
ParseDone == phase = "returned" /\ op = "parse"

\* C24: the counter and the map of placeholders are reset at the start of
\* every parse call: when a call returns, the counter is the number of
\* diagram blocks of its own text and the map holds their placeholders
\* and nothing else.
C24_FreshPerParse ==
    ParseDone =>
        /\ mermaidCounter = DiagramCount(input)
        /\ DOMAIN mermaidBlocks
               = {Placeholder(n) : n \in 0..(DiagramCount(input) - 1)}

(***************************************************************************)
(* C25.  The source a diagram link carries.                                *)
(***************************************************************************)
\* The url holds a payload, and the diagram source of the payload, read
\* back through base64, deflate, UTF-8 and JSON, is the code.
UrlCarries(url, code) ==
    /\ Len(url) = 3
    /\ url[3].b64.zlib.utf8.json.code = code

\* C25: for every DiagramLink of the tree parse returns, the diagram
\* source in the payload of its url is exactly its code field.
C25_UrlCarriesCode ==
    (Returned("parse") /\ output.ok) =>
        \A link \in Range(DiagramLinks(output.val.blocks)) :
            UrlCarries(link.url, link.code)

(***************************************************************************)
(* C26.  The content of a list item that has a nested list.                *)
(***************************************************************************)
\* The items of a List block and of the lists below it.
RECURSIVE ItemsBelow(_)
ItemsBelow(list) ==
    Range(list.items)
    \cup UNION {ItemsBelow(item.children) :
                  item \in {it \in Range(list.items) :
                               "children" \in DOMAIN it}}

\* C26: the content of a list item that has a nested list holds the text
\* of the item alone: one line, the text of an item, and no line of the
\* nested list.
C26_ItemContentOwnText ==
    ListParsed =>
        \A item \in ItemsBelow(output.val.blocks[1]) :
            "children" \in DOMAIN item =>
                /\ Cardinality(InlineLines(item.content)) = 1
                /\ InlineLines(item.content) \subseteq ItemTexts
                /\ \A l \in InlineLines(item.content) : ~IsListLine(l)

(***************************************************************************)
(* C27.  The numbering levels of DOCX list paragraphs.                     *)
(***************************************************************************)
\* The paragraphs of the returned document that are list paragraphs.
ListParagraphs ==
    {p \in Range(output.val.children) :
        p.class = "Paragraph" /\ p.numbering # "none"}

\* C27: every list paragraph of a document made by the DOCX backend
\* references a level that the numbering configuration of the document
\* defines for its reference, whatever the depth of the list.
C27_NumberingLevelDefined ==
    (RenderReturned /\ op = "docx" /\ output.ok) =>
        \A p \in ListParagraphs :
            /\ p.numbering \in DOMAIN output.val.numbering
            /\ p.level \in output.val.numbering[p.numbering]

(***************************************************************************)
(* C28.  The content of the paragraphs of a DOCX blockquote.               *)
(***************************************************************************)
\* The elements blockToDocx gives for the blocks of a blockquote, before
\* createBlockquote styles them.
QuoteElements(block, settings) ==
    Collect([i \in DOMAIN block.content |->
                BlockToDocx(block.content[i], settings)])

\* The DOCX backend has returned the document of a tree that is one
\* blockquote.
QuoteRendered ==
    /\ RenderReturned /\ op = "docx" /\ output.ok
    /\ Len(input.content.blocks) = 1
    /\ "type" \in DOMAIN input.content.blocks[1]
    /\ input.content.blocks[1].type = "blockquote"
    /\ QuoteElements(input.content.blocks[1], input.settings).ok

\* C28: every paragraph the DOCX backend emits for a block of a Blockquote
\* carries the text runs of the paragraph blockToDocx made for that block
\* before the indentation and the left border were applied.
C28_QuoteKeepsRuns ==
    QuoteRendered =>
        LET elements == QuoteElements(input.content.blocks[1],
                                      input.settings).val
        IN  /\ Len(output.val.children) = Len(elements)
            /\ \A i \in DOMAIN elements :
                   elements[i].class = "Paragraph" =>
                       output.val.children[i].children
                           = elements[i].children

(***************************************************************************)
(* C29.  When the modal closes.                                            *)
(***************************************************************************)
\* The call i of exportNote, made by the modal, returns in this step.
ModalCallReturns(i) ==
    /\ calls[i].origin = "modal"
    /\ calls[i].pc # "returned"
    /\ calls'[i].pc = "returned"

\* C29: when an export started by the modal ends in failure, the modal is
\* not closed by it, and the Export button is enabled again with the
\* label Export.
C29_FailedExportKeepsModalOpen ==
    [][\A i \in DOMAIN calls :
          (ModalCallReturns(i) /\ calls'[i].notices[1].mark = "fail") =>
              /\ modal'.opened = modal.opened
              /\ modal'.closed = modal.closed
              /\ modal'.exportButton = [disabled |-> FALSE, text |-> "Export"]]_vars

(***************************************************************************)
(* C30.  One export at a time in a modal.                                  *)
(***************************************************************************)
\* The calls of exportNote made by the modal that have not returned.
InFlight ==
    {i \in DOMAIN calls :
        calls[i].origin = "modal" /\ calls[i].pc # "returned"}

\* C30: at most one export of the modal is in flight; one is in flight
\* exactly while isExporting is set, so that a call of handleExport in the
\* meantime calls onExport no second time, and once the export has
\* finished a call of handleExport calls onExport again.
C30_OneExportInFlight ==
    modal.constructed =>
        /\ Cardinality(InFlight) <= 1
        /\ modal.isExporting <=> InFlight # {}
        /\ Cardinality({i \in DOMAIN calls : calls[i].origin = "modal"})
               = modal.onExportCalls
        /\ HandleExport(modal).onExportCalls
               = IF InFlight # {} THEN modal.onExportCalls
                 ELSE modal.onExportCalls + 1

\* handleExport has been called three times: the first call started an
\* export, and the two calls that came while it was in flight started
\* none.
C30_Witness ==
    /\ modal.constructed
    /\ modal.handled = 3
    /\ modal.onExportCalls = 1
    /\ Cardinality(InFlight) = 1

\* An export of the modal has finished, with success or with failure,
\* and the guard is released.
C30_WitnessReleased ==
    /\ modal.constructed
    /\ modal.onExportCalls = 1
    /\ InFlight = {}
    /\ ~modal.isExporting

====
